---- MODULE Spec2Model ----
(***************************************************************************)
(* A model of the retrieval datastore of memtrans.py: MemTransDatastore     *)
(* (the memory-mapped key/value store with its token/id side-channels, the  *)
(* per-head inner-product index, and the start/end offsets of each example  *)
(* id), the lookup by example id, RetrievalTracker, and the save and        *)
(* retrieve stages of MemTransAttn.  Arrays are 0-based functions, as in    *)
(* the source.                                                              *)
(***************************************************************************)
EXTENDS Integers, Sequences, FiniteSets, TLC

VARIABLES
    size,                \* self.size: the capacity the store was configured with
    move_dstore_to_mem,  \* self.move_dstore_to_mem (configuration)
    mode,                \* mode of the np.memmap arrays: "w+" or "r"
    moved,               \* TRUE once load_index replaced the memmaps by torch tensors
    cur_idx,             \* self.cur_idx
    keys,                \* self.keys[h][slot][d]
    values,              \* self.values[h][slot][d]
    tokens,              \* the contents of the tokens file, tokens[slot]
    ids,                 \* the contents of the ids file, ids[slot]
    side_ok,             \* FALSE when self.tokens = self.ids = None
    indices,             \* self.indices: [set, list], list[h + 1] the index of head h
    index_file,          \* the persisted index files: [set, list]
    start_offsets,       \* self.start_offsets (a Python list, then a tensor)
    end_offsets,         \* self.end_offsets
    lengths,             \* self.lengths: [set, data]
    cfg,                 \* MemTransAttn: stage, topk, by_ids, skip_retrieval_steps, ...
    id_offset,           \* MemTransAttn.id_offset
    by_ids_cache,        \* MemTransAttn.by_ids_cache: [set, ret], and for which batch and ids
    tracker,             \* RetrievalTracker: its three lists, one item per step
    env,                 \* the caller: its batch, its size, the decode step, the sizes before
    layers,              \* the engines and stores of the retrieval layers after the first
    last                 \* the last call: its arguments, cur_idx before it, its outcome

vars == <<size, move_dstore_to_mem, mode, moved, cur_idx, keys, values, tokens, ids,
          side_ok, indices, index_file, start_offsets, end_offsets, lengths,
          cfg, id_offset, by_ids_cache, tracker, env, layers, last>>

\* The state of MemTransAttn, of its tracker and of its caller.
attnVars == <<cfg, id_offset, by_ids_cache, tracker, env, layers>>

----------------------------------------------------------------------------
(* Bounds of the model *)

NHeads == 2
Dim == 2
MaxCap == 3
MaxBatch == 2

----------------------------------------------------------------------------
(* Values *)


Range(n) == 0 .. (n - 1)
Min(a, b) == IF a < b THEN a ELSE b
Max(a, b) == IF a < b THEN b ELSE a

\* .astype(np.float32): exact up to 2^24, then to the nearest even integer
\* (round half to even on the 24-bit significand), valid below 2^25.
AsFloat32(x) ==
    LET a == IF x < 0 THEN -x ELSE x
        r == IF a <= 16777216 THEN a
             ELSE IF a % 2 = 0 THEN a
             ELSE IF ((a - 1) \div 2) % 2 = 0 THEN a - 1 ELSE a + 1
    IN  IF x < 0 THEN -r ELSE r

\* .astype(np.int32) of an int64 keeps the low 32 bits.  The integers of
\* this model are the 32-bit integers, on which the cast changes nothing.
AsInt32(x) == IF -2147483647 <= x /\ x <= 2147483647 THEN x ELSE -2147483647 - 1

\* A (n_heads, n_tokens, dim) tensor is [nh, nt, dim, data], data[h][j][d];
\* a (n_tokens) tensor is [none, nt, data], data[j], where none is TRUE for
\* a Python None passed in place of the tensor.
NoneT == [none |-> TRUE, nt |-> 0, data |-> [j \in Range(0) |-> 0]]

ZeroVec == [d \in Range(Dim) |-> 0]

----------------------------------------------------------------------------
(* The entries the callers hand in.  An entry is one of two kinds (tags);   *)
(* its key, value, token and id are fixed functions of the tag, the head    *)
(* and the dimension.  Two kinds tell the entries of a batch and their      *)
(* order apart.                                                             *)

Tags == {1, 2}
MaxTag == Cardinality(Tags)

\* The batches: n <= MaxBatch entries whose tags run upwards from t, cyclically.
TagRun(t, n) == [j \in 1 .. n |-> ((t + j - 2) % MaxTag) + 1]
TagSeqs == {TagRun(t, n) : t \in Tags, n \in 0 .. MaxBatch}

KeyComp(t, h, d) == ((t + (h + 1) * (d + 1)) % 3) - 1
ValComp(t, h, d) == 10 * t + 3 * h + d
TokOf(t) == 100 + t
IdOf(t) == t - 1

KeysOf(tags, nh, dim) ==
    [nh |-> nh, nt |-> Len(tags), dim |-> dim,
     data |-> [h \in Range(nh) |-> [j \in Range(Len(tags)) |->
                 [d \in Range(dim) |-> KeyComp(tags[j + 1], h, d)]]]]
ValuesOf(tags, nh, dim) ==
    [nh |-> nh, nt |-> Len(tags), dim |-> dim,
     data |-> [h \in Range(nh) |-> [j \in Range(Len(tags)) |->
                 [d \in Range(dim) |-> ValComp(tags[j + 1], h, d)]]]]
TokensOf(tags) ==
    [none |-> FALSE, nt |-> Len(tags), data |-> [j \in Range(Len(tags)) |-> TokOf(tags[j + 1])]]
IdsOf(tags) ==
    [none |-> FALSE, nt |-> Len(tags), data |-> [j \in Range(Len(tags)) |-> IdOf(tags[j + 1])]]

\* The ways in which the arguments of one save_key_value call can be
\* inconsistent; "none" is a well-formed call.
Faults == {"none", "values_count", "tokens_count", "ids_count",
           "keys_heads", "keys_dim", "values_dim", "values_one_head",
           "tokens_none", "ids_none"}

ArgKeys(tags, f) ==
    KeysOf(tags, IF f = "keys_heads" THEN NHeads + 1 ELSE NHeads,
                 IF f = "keys_dim" THEN Dim + 1 ELSE Dim)
ArgValues(tags, f) ==
    ValuesOf(IF f = "values_count" THEN Append(tags, 1) ELSE tags,
             IF f = "values_one_head" THEN 1 ELSE NHeads,
             IF f = "values_dim" THEN Dim + 1 ELSE Dim)
ArgTokens(tags, f) ==
    IF f = "tokens_none" THEN NoneT
    ELSE TokensOf(IF f = "tokens_count" THEN Append(tags, 1) ELSE tags)
ArgIds(tags, f) ==
    IF f = "ids_none" THEN NoneT
    ELSE IdsOf(IF f = "ids_count" THEN Append(tags, 1) ELSE tags)

----------------------------------------------------------------------------
(* numpy slicing and slice assignment *)

\* len(a[cur:cur + n]) for an array of sz slots
SliceLen(cur, n, sz) == Max(0, Min(Max(cur + n, 0), sz) - Min(cur, sz))

\* t[:, :n] and t[:n]
Slice3(T, n) ==
    LET m == IF n >= 0 THEN Min(n, T.nt) ELSE Max(0, T.nt + n)
    IN  [nh |-> T.nh, nt |-> m, dim |-> T.dim,
         data |-> [h \in Range(T.nh) |-> [j \in Range(m) |-> T.data[h][j]]]]
Slice1(T, n) ==
    LET m == IF n >= 0 THEN Min(n, T.nt) ELSE Max(0, T.nt + n)
    IN  [none |-> FALSE, nt |-> m, data |-> [j \in Range(m) |-> T.data[j]]]

\* numpy broadcasting of one source dimension s to a target dimension t
Bcast(s, t) == s = t \/ s = 1

\* a[:, cur:cur + len] = src, for a of shape (NHeads, sz, Dim)
CanAssign3(src, len) == Bcast(src.nh, NHeads) /\ Bcast(src.nt, len) /\ Bcast(src.dim, Dim)
Assign3(a, sz, cur, len, src) ==
    [h \in Range(NHeads) |-> [s \in Range(sz) |->
        IF cur <= s /\ s < cur + len
        THEN [d \in Range(Dim) |->
                AsFloat32(src.data[IF src.nh = 1 THEN 0 ELSE h]
                                  [IF src.nt = 1 THEN 0 ELSE s - cur]
                                  [IF src.dim = 1 THEN 0 ELSE d])]
        ELSE a[h][s]]]

\* a[cur:cur + len] = src, for a of shape (sz)
CanAssign1(src, len) == Bcast(src.nt, len)
Assign1(a, sz, cur, len, src) ==
    [s \in Range(sz) |->
        IF cur <= s /\ s < cur + len
        THEN AsInt32(src.data[IF src.nt = 1 THEN 0 ELSE s - cur])
        ELSE a[s]]

----------------------------------------------------------------------------
(* MemTransDatastore.save_key_value *)

\* The arrays and the write offset of the store.
Store == [keys |-> keys, values |-> values, tokens |-> tokens, ids |-> ids,
          cur_idx |-> cur_idx]

\* The two asserts on the arguments.  A chained comparison stops at its
\* first false link, so tokens.size(0) and ids.size(0) are evaluated (and
\* fail on None) only when the links before them hold.
CheckArgs(k, v, t, i) ==
    IF k.nt # v.nt THEN "AssertionError"
    ELSE IF t.none THEN "AttributeError"
    ELSE IF v.nt # t.nt THEN "AssertionError"
    ELSE IF i.none THEN "AttributeError"
    ELSE IF t.nt # i.nt THEN "AssertionError"
    ELSE IF ~(k.nh = NHeads /\ k.dim = Dim) THEN "AssertionError"
    ELSE "ok"

TruncNt_OffByOne(cur, nt, sz) == IF cur + nt > sz THEN sz - cur - 1 ELSE nt

\* nt after the truncation
TruncNt(cur, nt, sz) == IF cur + nt > sz THEN sz - cur ELSE nt

TruncateLog_Warns(cur, nt, sz) == IF cur + nt > sz THEN <<"warning">> ELSE << >>

\* What the truncation branch logs: nothing.
TruncateLog(cur, nt, sz) == << >>

\* The except clause: two logger.error calls, then the error is raised again.
ErrorLog == <<"error", "error">>

Writeable_Always(md) == TRUE

\* An np.memmap opened with mode 'r' refuses every assignment, an empty one too.
Writeable(md) == md = "w+"

NextCurIdx_Assign(cur, nt) == nt

\* self.cur_idx += nt
NextCurIdx(cur, nt) == cur + nt

Done(st, outcome, log) == [st |-> st, outcome |-> outcome, log |-> log]

SaveKeyValueResult(st, sz, md, mv, sok, k, v, t, i) ==
    LET chk == CheckArgs(k, v, t, i)
        cur == st.cur_idx
    IN
    IF chk # "ok" THEN Done(st, chk, << >>)
    ELSE IF ~(cur <= sz) THEN Done(st, "AssertionError", << >>)
    ELSE
    LET over == cur + k.nt > sz
        nt == TruncNt(cur, k.nt, sz)
        k2 == IF over THEN Slice3(k, nt) ELSE k
        v2 == IF over THEN Slice3(v, nt) ELSE v
        t2 == IF over /\ ~t.none THEN Slice1(t, nt) ELSE t
        i2 == IF over /\ ~i.none THEN Slice1(i, nt) ELSE i
        len == SliceLen(cur, nt, sz)
        lg == TruncateLog(cur, k.nt, sz)
    IN
    \* a torch tensor does not take a numpy array in an assignment
    IF mv THEN Done(st, "TypeError", lg)
    ELSE IF ~Writeable(md) \/ ~CanAssign3(k2, len)
    THEN Done(st, "ValueError", lg \o ErrorLog)
    ELSE
    LET st1 == [st EXCEPT !.keys = Assign3(st.keys, sz, cur, len, k2)] IN
    IF ~CanAssign3(v2, len) THEN Done(st1, "ValueError", lg \o ErrorLog)
    ELSE
    LET st2 == [st1 EXCEPT !.values = Assign3(st.values, sz, cur, len, v2)] IN
    IF ~t2.none /\ ~sok THEN Done(st2, "TypeError", lg)
    ELSE IF ~t2.none /\ ~CanAssign1(t2, len) THEN Done(st2, "ValueError", lg \o ErrorLog)
    ELSE
    LET st3 == IF t2.none THEN st2
               ELSE [st2 EXCEPT !.tokens = Assign1(st.tokens, sz, cur, len, t2)] IN
    IF ~i2.none /\ ~sok THEN Done(st3, "TypeError", lg)
    ELSE IF ~i2.none /\ ~CanAssign1(i2, len) THEN Done(st3, "ValueError", lg \o ErrorLog)
    ELSE
    LET st4 == IF i2.none THEN st3
               ELSE [st3 EXCEPT !.ids = Assign1(st.ids, sz, cur, len, i2)] IN
    Done([st4 EXCEPT !.cur_idx = NextCurIdx(cur, nt)], "ok", lg)

----------------------------------------------------------------------------
(* The record of the last call *)

NoRet == [searched |-> 0, ks_shape |-> << >>, ts_shape |-> << >>,
          labels |-> << >>, ks |-> << >>, vs |-> << >>, ts |-> << >>, ids |-> << >>]

\* What a call of the patched attention layer hands back: the position bias
\* for the next layers, the attention of every example, head and position,
\* the key/value state for the next decode step.
NoPresent == [set |-> FALSE, key_states |-> << >>, value_states |-> << >>]
NoForward == [position_bias |-> << >>, rows |-> << >>, present |-> NoPresent]

Call(op) == [op |-> op, tags |-> << >>, fault |-> "none", rerun |-> FALSE,
             moved |-> moved, id_offset |-> id_offset, bs |-> 0, sl |-> 0, nt |-> 0,
             lens |-> << >>, ids |-> << >>, max_length |-> 0, skip_first_token |-> FALSE,
             predictions |-> << >>, out |-> << >>,
             key_length |-> 0, first |-> FALSE, path |-> "none", width |-> 0,
             cache_batch |-> 0,
             qkind |-> "none", qnh |-> 0, qnt |-> 0, qdim |-> 0, topk |-> 0,
             return_all |-> FALSE, low_first |-> TRUE, batch_size |-> 0,
             build_offset |-> FALSE, cur_idx |-> cur_idx, outcome |-> "ok",
             log |-> << >>, ret |-> NoRet, fwd |-> NoForward]


\* MemTransAttn.__init__ (stage 'save', nothing tracked), an empty tracker,
\* and a caller that has made no call yet.
NoCache == [set |-> FALSE, batch |-> 0, ids |-> << >>, ret |-> NoRet]
NoTracker == [predictions |-> << >>, retrieved_tokens |-> << >>, retrieved_ids |-> << >>]
NoEnv == [batch |-> 0, key_length |-> 0, bs |-> 0, before |-> 0]
\* The host's side of a patched layer: whether it is the layer that owns the
\* relative attention bias, the mask and layer_head_mask it is called with,
\* use_cache.
NoHost == [first_layer |-> TRUE, mask |-> "none", layer_head_mask |-> FALSE,
           use_cache |-> FALSE]
SaveCfg == [stage |-> "save", topk |-> 0, by_ids |-> FALSE, skip_retrieval_steps |-> 0,
            skip_first_token |-> FALSE, track |-> FALSE, add_after_first |-> FALSE,
            host |-> NoHost]

----------------------------------------------------------------------------
(* faiss.IndexFlatIP and MemTransDatastore.build_index *)

\* An index is [ntotal, xb]: the vectors added so far, in the order added.
EmptyIndex == [ntotal |-> 0, xb |-> [i \in Range(0) |-> ZeroVec]]

F32Vec(v) == [d \in DOMAIN v |-> AsFloat32(v[d])]

IndexedLen_AllSlots(cur, sz) == sz

\* len(self.keys[h][:self.cur_idx]): the unused slots are left out
IndexedLen(cur, sz) == Min(cur, sz)

\* for b in range(b, len, batch_size): index.add(src[b:b + batch_size])
RECURSIVE AddChunks(_, _, _, _, _)
AddChunks(index, src, len, b, batch_size) ==
    IF batch_size < 0 \/ b >= len THEN index
    ELSE LET m == Min(b + batch_size, len) - b
             n == index.ntotal
         IN  AddChunks([ntotal |-> n + m,
                        xb |-> [i \in Range(n + m) |->
                                  IF i < n THEN index.xb[i] ELSE F32Vec(src[b + (i - n)])]],
                       src, len, b + batch_size, batch_size)

NewIndex_Existing(h) == IF index_file.set THEN index_file.list[h] ELSE EmptyIndex

\* index = faiss.IndexFlatIP(self.dimension): every run starts head h empty
NewIndex(h) == EmptyIndex

\* The result of build_index: self.indices, the index files, the outcome.
\* range() refuses a step of 0; a torch tensor (after load_index moved the
\* store to memory) has no copy(), which the first chunk calls.
BuildIndexResult(batch_size) ==
    IF batch_size = 0
    THEN [indices |-> [set |-> TRUE, list |-> <<EmptyIndex>>], file |-> index_file,
          outcome |-> "ValueError"]
    ELSE IF moved /\ IndexedLen(cur_idx, size) > 0
    THEN [indices |-> [set |-> TRUE, list |-> <<EmptyIndex>>], file |-> index_file,
          outcome |-> "AttributeError"]
    ELSE LET built == [h \in 1 .. NHeads |->
                          AddChunks(NewIndex(h), keys[h - 1], IndexedLen(cur_idx, size),
                                    0, batch_size)]
         IN  [indices |-> [set |-> TRUE, list |-> built],
              file |-> [set |-> TRUE, list |-> built], outcome |-> "ok"]

----------------------------------------------------------------------------
(* MemTransDatastore.get_knns *)

RECURSIVE Dot(_, _, _)
Dot(a, b, n) == IF n = 0 THEN 0 ELSE a[n - 1] * b[n - 1] + Dot(a, b, n - 1)

\* Entry i is ranked before entry j: a larger inner product first.  faiss
\* leaves the order of equal inner products open; a search resolves it one
\* way or the other (low_first).
Better(index, q, low_first, i, j) ==
    LET di == Dot(index.xb[i], q, Dim)
        dj == Dot(index.xb[j], q, Dim)
    IN  di > dj \/ (di = dj /\ IF low_first THEN i < j ELSE i > j)

\* index.search(q, k) for one query: the labels of the k best entries, best
\* first, and -1 where the index holds fewer than k entries.
Search(index, q, k, low_first) ==
    [p \in 1 .. k |->
        IF p <= index.ntotal
        THEN CHOOSE i \in Range(index.ntotal) :
                Cardinality({j \in Range(index.ntotal) : Better(index, q, low_first, j, i)})
                    = p - 1
        ELSE -1]

\* a[label] for an array of n slots: a negative label counts from the end
PyIndex(label, n) == IF label < 0 THEN label + n ELSE label

\* torch.stack takes tensors: the rows gathered from self.keys are tensors
\* only after load_index has moved the store to memory; gathered from the
\* numpy memmap they are numpy arrays.
Stackable(mv) == mv

EmptyTopk_Negative(topk) == topk < 0

\* if topk <= 0: return "empty" tensors
EmptyTopk(topk) == topk <= 0

\* The outcome of a call and what it returns.  ks_shape and ts_shape are the
\* shapes of the key/value and of the token/id results (ts_shape is << >> for
\* None); searched counts the index.search calls that were made.
GetKnnsResult(q, topk, return_all, low_first) ==
    IF EmptyTopk(topk)
    THEN [outcome |-> "ok",
          ret |-> [searched |-> 0,
                   ks_shape |-> <<q.nh, q.nt, 0, q.dim>>,
                   ts_shape |-> IF return_all THEN <<q.nh, q.nt, 0>> ELSE << >>,
                   labels |-> << >>,
                   ks |-> [h \in Range(q.nh) |-> [b \in Range(q.nt) |-> << >>]],
                   vs |-> [h \in Range(q.nh) |-> [b \in Range(q.nt) |-> << >>]],
                   ts |-> IF return_all
                          THEN [h \in Range(q.nh) |-> [b \in Range(q.nt) |-> << >>]]
                          ELSE << >>,
                   ids |-> IF return_all
                           THEN [h \in Range(q.nh) |-> [b \in Range(q.nt) |-> << >>]]
                           ELSE << >>]]
    ELSE IF ~indices.set
    THEN [outcome |-> "AttributeError", ret |-> NoRet]
    ELSE IF Len(indices.list) = 0 \/ q.nh = 0
    THEN [outcome |-> "IndexError", ret |-> NoRet]
    ELSE IF q.dim # Dim
    THEN [outcome |-> "AssertionError", ret |-> NoRet]
    ELSE IF return_all /\ ~side_ok
    THEN [outcome |-> "AssertionError", ret |-> [NoRet EXCEPT !.searched = 1]]
    ELSE IF Min(Len(indices.list), q.nh) < NHeads
    THEN [outcome |-> "IndexError",
          ret |-> [NoRet EXCEPT !.searched = Min(Len(indices.list), q.nh)]]
    ELSE IF ~Stackable(moved)
    THEN [outcome |-> "TypeError", ret |-> [NoRet EXCEPT !.searched = NHeads]]
    ELSE
    LET labels == [h \in Range(NHeads) |-> [b \in Range(q.nt) |->
                      Search(indices.list[h + 1], q.data[h][b], topk, low_first)]]
    IN  [outcome |-> "ok",
         ret |-> [searched |-> NHeads,
                  ks_shape |-> <<NHeads, q.nt, topk, Dim>>,
                  ts_shape |-> IF return_all THEN <<NHeads, q.nt, topk>> ELSE << >>,
                  labels |-> labels,
                  ks |-> [h \in Range(NHeads) |-> [b \in Range(q.nt) |->
                            [p \in 1 .. topk |-> keys[h][PyIndex(labels[h][b][p], size)]]]],
                  vs |-> [h \in Range(NHeads) |-> [b \in Range(q.nt) |->
                            [p \in 1 .. topk |-> values[h][PyIndex(labels[h][b][p], size)]]]],
                  ts |-> IF return_all
                         THEN [h \in Range(NHeads) |-> [b \in Range(q.nt) |->
                                 [p \in 1 .. topk |-> tokens[PyIndex(labels[h][b][p], size)]]]]
                         ELSE << >>,
                  ids |-> IF return_all
                          THEN [h \in Range(NHeads) |-> [b \in Range(q.nt) |->
                                  [p \in 1 .. topk |-> ids[PyIndex(labels[h][b][p], size)]]]]
                          ELSE << >>]]

----------------------------------------------------------------------------
(* MemTransDatastore.load_index *)

\* The scan of self.ids that builds the start and end offsets; it stops at
\* the first id that is neither the previous id nor the previous id plus one.
RECURSIVE ScanIds(_, _, _, _, _, _)
ScanIds(a, n, i, prev_id, starts, ends) ==
    IF i = n THEN [raised |-> FALSE, starts |-> starts, ends |-> ends]
    ELSE IF a[i] = prev_id + 1
    THEN ScanIds(a, n, i + 1, a[i], Append(starts, i),
                 IF Len(starts) > 0 THEN Append(ends, i) ELSE ends)
    ELSE IF a[i] = prev_id
    THEN ScanIds(a, n, i + 1, prev_id, starts, ends)
    ELSE [raised |-> TRUE, starts |-> starts, ends |-> ends]

FinalEnd_LastPosition(n) == n - 1

\* self.end_offsets.append(len(self.ids))
FinalEnd(n) == n

\* self.lengths = self.end_offsets - self.start_offsets
Lengths(starts, ends) == [i \in 1 .. Len(starts) |-> ends[i] - starts[i]]

\* The part of the object load_index assigns, and the outcome.
Loaded(mv, ind, so, eo, len, outcome) ==
    [moved |-> mv, indices |-> ind, start_offsets |-> so, end_offsets |-> eo,
     lengths |-> len, outcome |-> outcome]

\* torch.from_numpy refuses what is already a tensor (a second load_index);
\* enumerate refuses None; the memmap of a store not moved to memory has no
\* permute; read_index needs the file build_index wrote.
LoadIndexResult(build_offset) ==
    IF move_dstore_to_mem /\ moved
    THEN Loaded(moved, indices, start_offsets, end_offsets, lengths, "TypeError")
    ELSE
    LET mv == move_dstore_to_mem
        fromFile == IF index_file.set
                    THEN [outcome |-> "ok", indices |-> index_file]
                    ELSE [outcome |-> "RuntimeError",
                          indices |-> [set |-> TRUE, list |-> << >>]]
    IN
    IF ~build_offset
    THEN Loaded(mv, fromFile.indices, start_offsets, end_offsets, lengths, fromFile.outcome)
    ELSE IF ~side_ok
    THEN Loaded(mv, indices, << >>, << >>, lengths, "TypeError")
    ELSE
    LET scan == ScanIds(ids, size, 0, -1, << >>, << >>)
        ends == Append(scan.ends, FinalEnd(size))
    IN
    IF scan.raised
    THEN Loaded(mv, indices, scan.starts, scan.ends, lengths, "ValueError")
    ELSE IF Len(scan.starts) # Len(ends)
    THEN Loaded(mv, indices, scan.starts, ends, lengths, "AssertionError")
    ELSE
    LET len == [set |-> TRUE, data |-> Lengths(scan.starts, ends)]
    IN
    IF ~mv
    THEN Loaded(mv, indices, scan.starts, ends, len, "AttributeError")
    ELSE Loaded(mv, fromFile.indices, scan.starts, ends, len, fromFile.outcome)

----------------------------------------------------------------------------
(* MemTransDatastore.get_knns_by_ids *)

MaxLen == 3

\* t[:, :n] on a length dimension of w entries, n of either sign
SliceWidth(w, n) == IF n >= 0 THEN Min(w, n) ELSE Max(w + n, 0)

\* StridedTensor.lookup(ids, output='padded') (utils.py, not part of the
\* sources at hand; after the specification): the span of each id, gathered
\* into rows of the width of the longest span of the batch, shorter rows
\* zero-filled on the right.  The width is a matter of the ids alone.
LookupWidth(idb) ==
    IF Len(idb) = 0 THEN 0
    ELSE CHOOSE w \in {lengths.data[idb[b] + 1] : b \in 1 .. Len(idb)} :
            \A b \in 1 .. Len(idb) : lengths.data[idb[b] + 1] <= w

\* Entry p (from 0) of the padded row of id i, of an array a with zero z.
Padded(a, i, p, z) ==
    IF p < lengths.data[i + 1] THEN a[start_offsets[i + 1] + p] ELSE z

\* if seq_len > max_length: truncate to [:, :max_length]; a shorter result
\* is left as it is
TruncatedWidth(w, max_length) == IF w > max_length THEN SliceWidth(w, max_length) ELSE w

\* The outcome and the result for a batch idb of ids.  Before
\* load_index(build_offset=True) there is no keys_strided; an id without a
\* span is out of the range of the offsets; without the side channels there
\* is no tokens_strided.
GetKnnsByIdsResult(idb, max_length, skip_first_token, return_all) ==
    IF ~lengths.set \/ ~moved
    THEN [outcome |-> "AttributeError", ret |-> NoRet]
    ELSE IF \E b \in 1 .. Len(idb) : idb[b] < 0 \/ idb[b] >= Len(lengths.data)
    THEN [outcome |-> "IndexError", ret |-> NoRet]
    ELSE IF return_all /\ ~side_ok
    THEN [outcome |-> "AttributeError", ret |-> NoRet]
    ELSE
    LET skip == IF skip_first_token THEN 1 ELSE 0
        w == TruncatedWidth(Max(LookupWidth(idb) - skip, 0), max_length)
        bs == Len(idb)
    IN  [outcome |-> "ok",
         ret |-> [searched |-> 0,
                  ks_shape |-> <<NHeads, bs, w, Dim>>,
                  ts_shape |-> IF return_all THEN <<NHeads, bs, w>> ELSE << >>,
                  labels |-> << >>,
                  ks |-> [h \in Range(NHeads) |-> [b \in Range(bs) |->
                            [p \in 1 .. w |->
                                Padded(keys[h], idb[b + 1], p - 1 + skip, ZeroVec)]]],
                  vs |-> [h \in Range(NHeads) |-> [b \in Range(bs) |->
                            [p \in 1 .. w |->
                                Padded(values[h], idb[b + 1], p - 1 + skip, ZeroVec)]]],
                  ts |-> IF return_all
                         THEN [h \in Range(NHeads) |-> [b \in Range(bs) |->
                                 [p \in 1 .. w |->
                                     Padded(tokens, idb[b + 1], p - 1 + skip, 0)]]]
                         ELSE << >>,
                  ids |-> IF return_all
                          THEN [h \in Range(NHeads) |-> [b \in Range(bs) |->
                                  [p \in 1 .. w |->
                                      Padded(ids, idb[b + 1], p - 1 + skip, 0)]]]
                          ELSE << >>]]

----------------------------------------------------------------------------
(* RetrievalTracker *)

EosTokenId == 1
MaxSteps == 3

\* A tensor of shape (bs, n_heads, topk): data[b][h][k], all from 1.
Retrieved(bs, topk, val) ==
    [bs |-> bs, topk |-> topk,
     data |-> [b \in 1 .. bs |-> [h \in 1 .. NHeads |-> [k \in 1 .. topk |-> val]]]]

ZerosLike(t) == Retrieved(t.bs, t.topk, 0)

\* add_single_step_batched: the assert passes for tensors of one batch size
AddStep(tr, prediction, retrieved_token, retrieved_id) ==
    [predictions |-> Append(tr.predictions, prediction),
     retrieved_tokens |-> Append(tr.retrieved_tokens, retrieved_token),
     retrieved_ids |-> Append(tr.retrieved_ids, retrieved_id)]

\* torch.stack takes a non-empty list of tensors of one shape
CanStack(preds) == Len(preds) > 0 /\ \A j \in 1 .. Len(preds) : Len(preds[j]) = Len(preds[1])

\* np.argmax: the first step of the largest topk
MaxTopkIdx(rts) ==
    CHOOSE m \in 1 .. Len(rts) :
        /\ \A j \in 1 .. Len(rts) : rts[j].topk <= rts[m].topk
        /\ \A j \in 1 .. (m - 1) : rts[j].topk < rts[m].topk

\* "pad with 0": a step of another topk is replaced by zeros of the shape of
\* the step of the largest topk
PadSteps(rts) ==
    [j \in 1 .. Len(rts) |->
        IF rts[j].topk # rts[MaxTopkIdx(rts)].topk
        THEN ZerosLike(rts[MaxTopkIdx(rts)]) ELSE rts[j]]

\* agg[i, j].tolist(): the prediction, then token and id of every head and rank
Line(pred, rt, ri) ==
    <<pred>> \o [e \in 1 .. (NHeads * Len(rt[1]) * 2) |->
                    LET h == ((e - 1) \div (Len(rt[1]) * 2)) + 1
                        k == (((e - 1) % (Len(rt[1]) * 2)) \div 2) + 1
                    IN  IF (e - 1) % 2 = 0 THEN rt[h][k] ELSE ri[h][k]]

RECURSIVE LinesBeforeEos_Inclusive(_, _, _)
LinesBeforeEos_Inclusive(preds, i, j) ==
    IF j > Len(preds) THEN 0
    ELSE IF preds[j][i] = EosTokenId THEN 1
    ELSE 1 + LinesBeforeEos_Inclusive(preds, i, j + 1)

\* for j in range(sl): if agg[i, j, 0] == eos_token_id: break -- the number
\* of steps of row i, from step j on, that get a line
RECURSIVE LinesBeforeEos(_, _, _)
LinesBeforeEos(preds, i, j) ==
    IF j > Len(preds) \/ preds[j][i] = EosTokenId THEN 0
    ELSE 1 + LinesBeforeEos(preds, i, j + 1)

\* What write() writes for the rows i .. bs: the lines of a row, then '\n'
\* (the empty line << >>).
RECURSIVE RowsOut(_, _, _, _, _)
RowsOut(preds, rts, ris, i, bs) ==
    IF i > bs THEN << >>
    ELSE [j \in 1 .. LinesBeforeEos(preds, i, 1) |->
              Line(preds[j][i], rts[j].data[i], ris[j].data[i])]
         \o << << >> >> \o RowsOut(preds, rts, ris, i + 1, bs)

\* write(): the tracker afterwards, the lines written, the outcome
WriteResult(tr) ==
    IF ~CanStack(tr.predictions)
    THEN [tracker |-> tr, out |-> << >>, outcome |-> "RuntimeError"]
    ELSE [tracker |-> NoTracker,
          out |-> RowsOut(tr.predictions, PadSteps(tr.retrieved_tokens),
                          PadSteps(tr.retrieved_ids), 1, Len(tr.predictions[1])),
          outcome |-> "ok"]

----------------------------------------------------------------------------
(* MemTransAttn.save *)

MaxBs == 2
MaxSl == 2
MaxOffset == 4

\* What the layer holds at flat position p of its batch: the tag of the key,
\* value and decoder input id there.
PosTag(p) == (p % MaxTag) + 1

\* mask = labels != -100 for labels that are padded with -100 after the first
\* lens[b] positions of example b; flat position p is position p % sl of
\* example p \div sl.
LabelMask(lens, bs, sl) == [p \in Range(bs * sl) |-> (p % sl) < lens[p \div sl]]

\* x[mask]: the flat positions below n that the mask keeps, in order
RECURSIVE Surviving(_, _)
Surviving(mask, n) ==
    IF n = 0 THEN << >>
    ELSE LET r == Surviving(mask, n - 1)
         IN  IF mask[n - 1] THEN Append(r, n - 1) ELSE r

ExampleIds_Tiled(off, bs, sl) == [p \in Range(bs * sl) |-> off + (p % bs)]

\* ids = self.id_offset + torch.arange(bs).unsqueeze(-1).repeat(1, sl).flatten(0, 1)
ExampleIds(off, bs, sl) == [p \in Range(bs * sl) |-> off + (p \div sl)]

NextIdOffset_Surviving(off, bs, nt) == off + nt

\* self.id_offset += bs
NextIdOffset(off, bs, nt) == off + bs

----------------------------------------------------------------------------
(* MemTransAttn.retrieve *)

\* topk = self.topk; if sl > 1: topk = min(self.topk, 0)
RetrieveTopk(topk, sl) == IF sl > 1 THEN Min(topk, 0) ELSE topk

SkipForRetrieval_Before(skip_retrieval_steps, key_length) ==
    skip_retrieval_steps # 0 /\ key_length < skip_retrieval_steps

\* self.skip_retrieval_steps and key_length <= self.skip_retrieval_steps
SkipForRetrieval(skip_retrieval_steps, key_length) ==
    skip_retrieval_steps # 0 /\ key_length <= skip_retrieval_steps

\* ids = torch.arange(bs) + self.id_offset
DefaultIds(bs, off) == [b \in 1 .. bs |-> off + b - 1]

\* query_states of a batch, as (n_heads, bs * sl, dim)
QueryOf(bs, sl) == KeysOf([j \in 1 .. (bs * sl) |-> PosTag(j - 1)], NHeads, Dim)

\* ret_ts.permute(1, 0, 2): (n_heads, bs, topk) as (bs, n_heads, topk)
Permuted(shape, t) ==
    [bs |-> shape[2], topk |-> shape[3],
     data |-> [b \in 1 .. shape[2] |-> [h \in 1 .. NHeads |-> t[h - 1][b - 1]]]]

\* input_ids.squeeze(-1) of a decode step: the decoder start token at the
\* first step, a token of the sequence afterwards
DecoderInputIds(bs, key_length) == [b \in 1 .. bs |-> IF key_length = 1 THEN 0 ELSE 5]

\* What a call assigns, its outcome, and how it got its result.
Retrieved5(outcome, cache, tr, off, path, topk, idb, ret, out) ==
    [outcome |-> outcome, by_ids_cache |-> cache, tracker |-> tr, id_offset |-> off,
     path |-> path, topk |-> topk, ids |-> idb, ret |-> ret, out |-> out,
     width |-> IF outcome = "ok" THEN ret.ks_shape[3] ELSE 0]

\* retrieve(query_states, key_length) for a batch of bs examples of sl
\* positions; batch is the caller's number of the batch, kept with a cached
\* result.
RetrieveResult(bs, sl, key_length, batch, low_first) ==
    LET skip == SkipForRetrieval(cfg.skip_retrieval_steps, key_length)
        topk == IF skip THEN 0 ELSE RetrieveTopk(cfg.topk, sl)
        idb == DefaultIds(bs, id_offset)
        byIds == cfg.by_ids /\ sl = 1
        useCache == byIds /\ ~skip /\ by_ids_cache.set
        path == IF useCache THEN "cache" ELSE IF byIds THEN "lookup" ELSE "knns"
        found == IF useCache THEN [outcome |-> "ok", ret |-> by_ids_cache.ret]
                 ELSE IF byIds
                 THEN GetKnnsByIdsResult(idb, topk, cfg.skip_first_token, cfg.track)
                 ELSE GetKnnsResult(QueryOf(bs, sl), topk, cfg.track, low_first)
        cache1 == IF byIds /\ ~useCache
                  THEN IF skip THEN NoCache
                       ELSE [set |-> TRUE, batch |-> batch, ids |-> idb, ret |-> found.ret]
                  ELSE by_ids_cache
        R(outcome, cache, tr, off, out) ==
            Retrieved5(outcome, cache, tr, off, path, topk, idb, found.ret, out)
    IN
    IF found.outcome # "ok"
    THEN R(found.outcome, by_ids_cache, tracker, id_offset, << >>)
    ELSE IF cfg.track /\ sl = 1 /\ found.ret.ks_shape[2] # bs
    THEN R("AssertionError", cache1, tracker, id_offset, << >>)
    ELSE
    LET w == IF cfg.track /\ sl > 1 THEN WriteResult(tracker)
             ELSE [tracker |-> tracker, out |-> << >>, outcome |-> "ok"]
        tr1 == IF cfg.track /\ sl = 1
               THEN AddStep(tracker, DecoderInputIds(bs, key_length),
                            Permuted(found.ret.ts_shape, found.ret.ts),
                            Permuted(found.ret.ts_shape, found.ret.ids))
               ELSE w.tracker
    IN
    IF w.outcome # "ok"
    THEN R(w.outcome, cache1, tracker, id_offset, << >>)
    ELSE
    LET off2 == IF sl > 1 THEN id_offset + bs ELSE id_offset
        cache2 == IF sl > 1 THEN NoCache ELSE cache1
    IN  IF found.ret.ks_shape[2] # bs * sl /\ found.ret.ks_shape[3] > 0
        THEN R("RuntimeError", cache2, tr1, off2, w.out)
        ELSE R("ok", cache2, tr1, off2, w.out)

----------------------------------------------------------------------------
(* t5attetnion_forward in the retrieve stage: MemTransAttn.attn,            *)
(* update_mask_and_position_bias, init_position_bias, original_attn         *)

\* The key and the value the layer projects from the hidden state of
\* position j, with components no stored key or value has.
LocalKey(j) == [d \in Range(Dim) |-> 10 + j]
LocalValue(j) == [d \in Range(Dim) |-> 100 + j]

\* project(): torch.cat([past_key_value, hidden_states], dim=2), the past
\* entries followed by those of the new positions
Project(past_key_value, hidden_states) == past_key_value \o hidden_states

\* The additive mask the host hands in, (seq_length, key_length) per example
\* and head: none, the causal mask, or the causal mask of a batch whose
\* first position is padding.
MaskValue(hidden) == IF hidden THEN -1000 ELSE 0
HostMask(kind, seq_length, key_length) ==
    [set |-> kind # "none",
     rows |-> [q \in Range(seq_length) |-> [k \in Range(key_length) |->
                 MaskValue(k > (key_length - seq_length) + q
                            \/ (kind = "padded" /\ k = 0))]]]

\* ori_attn.compute_bias(query_length, key_length) of a decoder layer: entry
\* [q][k] is the learned bias of the bucket of the distance from key k back
\* to query q, bucket 0 for the keys ahead.  An entry is kept as its bucket
\* and the mask value added to it.
ComputeBias(query_length, key_length) ==
    [q \in Range(query_length) |-> [k \in Range(key_length) |->
        [bucket |-> Max(q - k, 0), mask |-> 0]]]

\* torch.zeros((1, n_heads, real_seq_length, key_length)): no bucket
ZeroBias(query_length, key_length) ==
    [q \in Range(query_length) |-> [k \in Range(key_length) |->
        [bucket |-> -1, mask |-> 0]]]

\* position_bias[:, :, -seq_length:, :]
LastRows(bias, seq_length) ==
    [q \in Range(seq_length) |-> bias[(Cardinality(DOMAIN bias) - seq_length) + q]]

\* position_bias + mask
PlusMask(bias, mask) ==
    [q \in DOMAIN bias |-> [k \in DOMAIN bias[q] |->
        [bias[q][k] EXCEPT !.mask = @ + mask.rows[q][k]]]]

ExtendMask_Unmasked(mask, topk, key_length) ==
    [set |-> mask.set,
     rows |-> [q \in DOMAIN mask.rows |-> [c \in Range(topk + key_length) |-> 0]]]

\* torch.cat([torch.zeros(*ext_size), mask], dim=3)
ExtendMask(mask, topk, key_length) ==
    [set |-> mask.set,
     rows |-> [q \in DOMAIN mask.rows |-> [c \in Range(topk + key_length) |->
                 IF c < topk THEN 0 ELSE mask.rows[q][c - topk]]]]

update_mask_and_position_bias(mask, seq_length, real_seq_length, key_length, topk) ==
    LET position_bias == LastRows(ComputeBias(topk + real_seq_length, topk + key_length),
                                  seq_length)
    IN  IF mask.set THEN PlusMask(position_bias, ExtendMask(mask, topk, key_length))
        ELSE position_bias

init_position_bias(has_relative_attention_bias, past_key_value, mask, real_seq_length, key_length, seq_length) ==
    LET computed == IF ~has_relative_attention_bias
                    THEN ZeroBias(real_seq_length, key_length)
                    ELSE ComputeBias(real_seq_length, key_length)
        position_bias == IF past_key_value THEN LastRows(computed, seq_length) ELSE computed
    IN  IF mask.set THEN PlusMask(position_bias, mask) ELSE position_bias

JointEntries_Appended(add_after_first, key_length, local, ret) == local \o ret

\* torch.cat of the retrieved and the local entries of one example and head:
\* retrieved first, or after local entry 0 with add_after_first once there is
\* more than one local entry
JointEntries(add_after_first, key_length, local, ret) ==
    IF add_after_first /\ key_length > 1
    THEN SubSeq(local, 1, 1) \o ret \o SubSeq(local, 2, Len(local))
    ELSE ret \o local

\* scores = torch.matmul(query_states, key_states.transpose(3, 2)) with the
\* position bias added: one entry per column
Scores(q, key_states, bias_row) ==
    [c \in 1 .. Len(key_states) |->
        [qk |-> Dot(q, key_states[c], Dim), bias |-> bias_row[c - 1]]]

\* softmax over the columns: the weight of a column is determined by its
\* score among the scores of the row
Softmax(scores) == [c \in 1 .. Len(scores) |-> [of |-> scores[c], among |-> scores]]

\* torch.matmul(attn_weights, value_states): the weighted value rows summed
WeightedValues(attn_weights, value_states) ==
    [c \in 1 .. Len(attn_weights) |-> [weight |-> attn_weights[c], value |-> value_states[c]]]

\* The attention of query position q of example b in head h over the given
\* columns.
AttnRow(b, h, q, query, key_states, value_states, bias_row) ==
    [b |-> b, h |-> h, q |-> q, key_states |-> key_states, value_states |-> value_states,
     bias |-> bias_row,
     attn_weights |-> Softmax(Scores(query, key_states, bias_row)),
     attn_output |-> WeightedValues(Softmax(Scores(query, key_states, bias_row)),
                                    value_states)]

\* the (example, head, position) triples of a call, in a fixed order
RowIndex(bs, sl) ==
    [i \in 1 .. (bs * NHeads * sl) |->
        [b |-> (i - 1) \div (NHeads * sl),
         h |-> ((i - 1) \div sl) % NHeads,
         q |-> (i - 1) % sl]]

\* original_attn without layer_head_mask: the local keys and values under
\* the position bias handed in
original_attn(bs, sl, key_states, value_states, position_bias) ==
    [i \in 1 .. (bs * NHeads * sl) |->
        LET x == RowIndex(bs, sl)[i]
        IN  AttnRow(x.b, x.h, x.q, QueryOf(bs, sl).data[x.h][x.b * sl + x.q],
                    key_states, value_states, position_bias[x.q])]

\* attn: NotImplementedError with a layer_head_mask; the evaluation branch
\* puts the retrieved columns first; the decoding branch joins them with
\* the local ones.  ret is what retrieve returned, as (n_heads, bs * sl, topk).
attn(bs, sl, key_states, value_states, key_length, real_seq_length, ret, mask, layer_head_mask, add_after_first) ==
    IF layer_head_mask
    THEN [outcome |-> "NotImplementedError", rows |-> << >>]
    ELSE IF sl > 1 /\ ~(sl = Len(key_states) /\ sl = key_length
                          /\ key_length = real_seq_length)
    THEN [outcome |-> "AssertionError", rows |-> << >>]
    ELSE IF sl = 1 /\ real_seq_length # key_length
    THEN [outcome |-> "AssertionError", rows |-> << >>]
    ELSE
    LET topk == ret.ks_shape[3]
        position_bias == update_mask_and_position_bias(mask, sl, real_seq_length,
                                                       key_length, topk)
    IN  [outcome |-> "ok",
         rows |-> [i \in 1 .. (bs * NHeads * sl) |->
            LET x == RowIndex(bs, sl)[i]
                ret_ks == ret.ks[x.h][x.b * sl + x.q]
                ret_vs == ret.vs[x.h][x.b * sl + x.q]
                aaf == add_after_first /\ sl = 1
            IN  AttnRow(x.b, x.h, x.q, QueryOf(bs, sl).data[x.h][x.b * sl + x.q],
                        JointEntries(aaf, key_length, key_states, ret_ks),
                        JointEntries(aaf, key_length, value_states, ret_vs),
                        position_bias[x.q])]]

----------------------------------------------------------------------------
(* Actions *)

ZeroKeys(sz) == [h \in Range(NHeads) |-> [s \in Range(sz) |-> ZeroVec]]
ZeroInts(sz) == [s \in Range(sz) |-> 0]

NoIndices == [set |-> FALSE, list |-> << >>]
NoLengths == [set |-> FALSE, data |-> << >>]

\* MemTransAttn.__init__ and a caller that has not called it yet.
AttnIdle ==
    /\ cfg = SaveCfg
    /\ id_offset = 0
    /\ by_ids_cache = NoCache
    /\ tracker = NoTracker
    /\ env = NoEnv

\* __init__ and load_or_init_dstore of the process that creates the store:
\* no backing file exists, the arrays are created with mode 'w+', zero-filled.
\* Creating the tokens or ids file may fail, which leaves both None.
Created ==
    /\ size = MaxCap
    /\ move_dstore_to_mem = FALSE
    /\ mode = "w+"
    /\ moved = FALSE
    /\ cur_idx = 0
    /\ keys = ZeroKeys(size)
    /\ values = ZeroKeys(size)
    /\ tokens = ZeroInts(size)
    /\ ids = ZeroInts(size)
    /\ side_ok \in BOOLEAN
    /\ indices = NoIndices
    /\ index_file = NoIndices
    /\ start_offsets = << >>
    /\ end_offsets = << >>
    /\ lengths = NoLengths
    /\ AttnIdle
    /\ last = [Call("__init__") EXCEPT !.cur_idx = 0, !.moved = FALSE, !.id_offset = 0,
                                     !.log = <<"info">>]

\* One retrieval layer.
Init ==
    /\ Created
    /\ layers = << >>

\* __init__ and load_or_init_dstore of a later process on the same files: the
\* key file exists, so the arrays are opened with mode 'r'; cur_idx starts at 0.
Reopen ==
    /\ mode' = "r"
    /\ moved' = FALSE
    /\ cur_idx' = 0
    /\ side_ok' \in BOOLEAN
    /\ indices' = NoIndices
    /\ start_offsets' = << >>
    /\ end_offsets' = << >>
    /\ lengths' = NoLengths
    /\ last' = [Call("__init__") EXCEPT !.cur_idx = 0, !.moved = FALSE, !.id_offset = 0,
                                     !.log = <<"info">>]
    /\ UNCHANGED <<size, move_dstore_to_mem, keys, values, tokens, ids, index_file>>
    /\ UNCHANGED attnVars

SaveKeyValue(tags, f) ==
    \E r \in {SaveKeyValueResult(Store, size, mode, moved, side_ok,
                 ArgKeys(tags, f), ArgValues(tags, f), ArgTokens(tags, f), ArgIds(tags, f))} :
    /\ keys' = r.st.keys
    /\ values' = r.st.values
    /\ tokens' = r.st.tokens
    /\ ids' = r.st.ids
    /\ cur_idx' = r.st.cur_idx
    /\ last' = [Call("save_key_value") EXCEPT !.tags = tags, !.fault = f,
                    !.outcome = r.outcome, !.log = r.log]
    /\ UNCHANGED <<size, move_dstore_to_mem, mode, moved, side_ok, indices, index_file,
                   start_offsets, end_offsets, lengths>>
    /\ UNCHANGED attnVars

\* The calls: every batch well-formed, and the empty batch and the longest
\* batch with each fault.
FaultSeqs == {TagRun(1, n) : n \in {0, MaxBatch}}
SaveArgs == {<<tags, "none">> : tags \in TagSeqs}
            \cup {<<tags, f>> : tags \in FaultSeqs, f \in Faults \ {"none"}}

SaveKeyValueStep == \E a \in SaveArgs : SaveKeyValue(a[1], a[2])

BuildIndex(batch_size) ==
    \E r \in {BuildIndexResult(batch_size)} :
    /\ indices' = r.indices
    /\ index_file' = r.file
    /\ last' = [Call("build_index") EXCEPT !.batch_size = batch_size, !.outcome = r.outcome,
                    !.rerun = (last.op = "build_index" /\ last.outcome = "ok")]
    /\ UNCHANGED <<size, move_dstore_to_mem, mode, moved, cur_idx, keys, values, tokens,
                   ids, side_ok, start_offsets, end_offsets, lengths>>
    /\ UNCHANGED attnVars

BuildIndexStep == \E batch_size \in 1 .. MaxBatch : BuildIndex(batch_size)

\* The queries: the keys the store holds in its slots [0, cur_idx), or one
\* key of its own in a batch of one, of a shape with fewer heads and a
\* larger dimension than the store's.
StoredKeys ==
    [nh |-> NHeads, nt |-> cur_idx, dim |-> Dim,
     data |-> [h \in Range(NHeads) |-> [j \in Range(cur_idx) |-> keys[h][j]]]]
QueryShapes == {<<1, Dim + 1>>}
QueryArgs ==
    {[kind |-> "stored", tags |-> << >>, nh |-> NHeads, dim |-> Dim]}
    \cup {[kind |-> "tags", tags |-> TagRun(2, 1), nh |-> sh[1], dim |-> sh[2]] :
            sh \in QueryShapes}
QueryTensor(a) == IF a.kind = "stored" THEN StoredKeys ELSE KeysOf(a.tags, a.nh, a.dim)
TopKs == (-1) .. MaxBatch

GetKnns(a, topk, return_all, low_first) ==
    \E q \in {QueryTensor(a)} :
    \E r \in {GetKnnsResult(q, topk, return_all, low_first)} :
    /\ last' = [Call("get_knns") EXCEPT !.qkind = a.kind, !.tags = a.tags,
                    !.qnh = q.nh, !.qnt = q.nt, !.qdim = q.dim, !.topk = topk,
                    !.return_all = return_all, !.low_first = low_first,
                    !.outcome = r.outcome, !.ret = r.ret]
    /\ UNCHANGED <<size, move_dstore_to_mem, mode, moved, cur_idx, keys, values, tokens,
                   ids, side_ok, indices, index_file, start_offsets, end_offsets, lengths>>
    /\ UNCHANGED attnVars

\* The order of equal inner products is a choice of the search only; a call
\* that returns the empty result makes none.
GetKnnsStep ==
    \E a \in QueryArgs, topk \in TopKs, return_all \in BOOLEAN :
        \E low_first \in (IF topk > 0 THEN BOOLEAN ELSE {TRUE}) :
            GetKnns(a, topk, return_all, low_first)

LoadIndex(build_offset) ==
    \E r \in {LoadIndexResult(build_offset)} :
    /\ moved' = r.moved
    /\ indices' = r.indices
    /\ start_offsets' = r.start_offsets
    /\ end_offsets' = r.end_offsets
    /\ lengths' = r.lengths
    /\ last' = [Call("load_index") EXCEPT !.build_offset = build_offset,
                    !.outcome = r.outcome,
                    !.log = IF r.moved /\ ~moved
                            THEN IF r.outcome = "ok" THEN <<"info", "info">> ELSE <<"info">>
                            ELSE IF r.outcome = "ok" THEN <<"info">> ELSE << >>]
    /\ UNCHANGED <<size, move_dstore_to_mem, mode, cur_idx, keys, values, tokens, ids,
                   side_ok, index_file>>
    /\ UNCHANGED attnVars

LoadIndexStep == \E build_offset \in BOOLEAN : LoadIndex(build_offset)

\* load_index() with the default build_offset
LoadIndexOnlyStep == LoadIndex(FALSE)

SaveWellFormedStep == \E tags \in TagSeqs : SaveKeyValue(tags, "none")

\* The creating process as Init, with either setting of move_dstore_to_mem
\* and the tokens and ids files created.
InitIndex ==
    /\ size = MaxCap
    /\ move_dstore_to_mem \in BOOLEAN
    /\ mode = "w+"
    /\ moved = FALSE
    /\ cur_idx = 0
    /\ keys = ZeroKeys(size)
    /\ values = ZeroKeys(size)
    /\ tokens = ZeroInts(size)
    /\ ids = ZeroInts(size)
    /\ side_ok = TRUE
    /\ indices = NoIndices
    /\ index_file = NoIndices
    /\ start_offsets = << >>
    /\ end_offsets = << >>
    /\ lengths = NoLengths
    /\ AttnIdle
    /\ layers = << >>
    /\ last = [Call("__init__") EXCEPT !.cur_idx = 0, !.moved = FALSE, !.id_offset = 0,
                                     !.log = <<"info">>]

\* One process that fills the store, builds the index, loads it and queries.
NextIndex ==
    \/ SaveWellFormedStep
    \/ BuildIndexStep
    \/ LoadIndexOnlyStep
    \/ GetKnnsStep

SpecIndex == InitIndex /\ [][NextIndex]_vars

MaxIds == 6
MaxId == 2

\* A reading process on the files of a finished collection run: the arrays
\* are opened with mode 'r', the ids file holds what the run's callers
\* passed as ids, and the index files are there.
InitOffsets ==
    /\ size \in 1 .. MaxIds
    /\ move_dstore_to_mem \in BOOLEAN
    /\ mode = "r"
    /\ moved = FALSE
    /\ cur_idx = 0
    /\ keys = ZeroKeys(size)
    /\ values = ZeroKeys(size)
    /\ tokens = ZeroInts(size)
    /\ ids \in [Range(size) -> (-1) .. MaxId]
    /\ side_ok = TRUE
    /\ indices = NoIndices
    /\ index_file = [set |-> TRUE, list |-> [h \in 1 .. NHeads |-> EmptyIndex]]
    /\ start_offsets = << >>
    /\ end_offsets = << >>
    /\ lengths = NoLengths
    /\ AttnIdle
    /\ layers = << >>
    /\ last = [Call("__init__") EXCEPT !.cur_idx = 0, !.moved = FALSE, !.id_offset = 0,
                                     !.log = <<"info">>]

NextOffsets == LoadIndexStep

SpecOffsets == InitOffsets /\ [][NextOffsets]_vars

\* save(key_states, value_states) for a batch of bs examples of sl positions:
\* the ids are taken and id_offset advanced before the surviving positions
\* go to save_key_value, whatever that call then does.
MtaSave(bs, sl, lens) ==
    /\ cfg.stage = "save"
    /\ id_offset + bs <= MaxOffset
    /\ \E pos \in {Surviving(LabelMask(lens, bs, sl), bs * sl)} :
       \E tags \in {[j \in 1 .. Len(pos) |-> PosTag(pos[j])]} :
       \E r \in {SaveKeyValueResult(Store, size, mode, moved, side_ok,
                    KeysOf(tags, NHeads, Dim), ValuesOf(tags, NHeads, Dim),
                    TokensOf(tags),
                    [none |-> FALSE, nt |-> Len(pos),
                     data |-> [j \in Range(Len(pos)) |->
                                  ExampleIds(id_offset, bs, sl)[pos[j + 1]]]])} :
          /\ id_offset' = NextIdOffset(id_offset, bs, Len(pos))
          /\ keys' = r.st.keys
          /\ values' = r.st.values
          /\ tokens' = r.st.tokens
          /\ ids' = r.st.ids
          /\ cur_idx' = r.st.cur_idx
          /\ last' = [Call("save") EXCEPT !.bs = bs, !.sl = sl, !.nt = Len(pos),
                          !.lens = [b \in 1 .. bs |-> lens[b - 1]], !.tags = tags, !.outcome = r.outcome, !.log = r.log]
    /\ UNCHANGED <<size, move_dstore_to_mem, mode, moved, side_ok, indices, index_file,
                   start_offsets, end_offsets, lengths>>
    /\ UNCHANGED <<cfg, by_ids_cache, tracker, env>>

MtaSaveStep ==
    /\ \E bs \in 1 .. MaxBs, sl \in 1 .. MaxSl :
          \E lens \in [Range(bs) -> 0 .. sl] : MtaSave(bs, sl, lens)
    /\ UNCHANGED layers

\* The save stage: the creating process runs the model over its batches.
NextSave == MtaSaveStep

SpecSave == Init /\ [][NextSave]_vars

\* load_index(build_offset=True), as break_into calls it in the retrieve stage
LoadIndexWithOffsetsStep == LoadIndex(TRUE)

\* A collection run and the process that opens its files afterwards for the
\* retrieve stage: the save stage appends batches and builds the index, a
\* new MemTransDatastore
\* on the same files starts at cur_idx = 0, load_index builds the offsets.
NextCollect ==
    \/ MtaSaveStep
    \/ BuildIndexStep
    \/ Reopen
    \/ LoadIndexWithOffsetsStep

SpecCollect == InitIndex /\ [][NextCollect]_vars

NLayers == 2

SavedLabels_Stale(l, lens) == IF l = 0 THEN lens ELSE [b \in DOMAIN lens |-> 0]

\* pre_forward_hook: for dstore in self.dstores: dstore.save_labels(labels,
\* decoder_input_ids); what get_labels() then returns in layer l
SavedLabels(l, lens) == lens

\* break_into: one MemTransDatastore of the same size in a directory of its
\* own and one MemTransAttn per retrieval layer; creating the tokens or ids
\* file of a layer may fail, which leaves both None in that layer.
NewLayers ==
    [1 .. (NLayers - 1) ->
        {[id_offset |-> 0, side_ok |-> ok,
          st |-> [keys |-> ZeroKeys(MaxCap), values |-> ZeroKeys(MaxCap),
                  tokens |-> ZeroInts(MaxCap), ids |-> ZeroInts(MaxCap), cur_idx |-> 0],
          outcome |-> "ok"] : ok \in BOOLEAN}]

\* save(key_states, value_states) in a layer after the first, ly its engine
\* and store.  The keys and values of a layer are its own projections; they
\* are kept by the tags of their positions as in the first layer.
LayerSave(ly, bs, sl, lens) ==
    LET pos == Surviving(LabelMask(lens, bs, sl), bs * sl)
        tags == [j \in 1 .. Len(pos) |-> PosTag(pos[j])]
        r == SaveKeyValueResult(ly.st, size, mode, moved, ly.side_ok,
                 KeysOf(tags, NHeads, Dim), ValuesOf(tags, NHeads, Dim),
                 TokensOf(tags),
                 [none |-> FALSE, nt |-> Len(pos),
                  data |-> [j \in Range(Len(pos)) |->
                               ExampleIds(ly.id_offset, bs, sl)[pos[j + 1]]]])
    IN  [id_offset |-> NextIdOffset(ly.id_offset, bs, Len(pos)), side_ok |-> ly.side_ok,
         st |-> r.st, outcome |-> r.outcome]

\* One forward pass of the model in the save stage: pre_forward_hook hands
\* the labels to every store, then the retrieval layers run in their order,
\* each saving into its own store; an error in a layer ends the pass, and
\* the layers after it are not called.
pre_forward_hook(bs, sl, lens) ==
    /\ MtaSave(bs, sl, SavedLabels(0, lens))
    /\ \E res \in {[l \in 1 .. Len(layers) |->
                        LayerSave(layers[l], bs, sl, SavedLabels(l, lens))]} :
          layers' = [l \in 1 .. Len(layers) |->
                       IF last'.outcome = "ok"
                          /\ \A m \in 1 .. (l - 1) : res[m].outcome = "ok"
                       THEN res[l]
                       ELSE [layers[l] EXCEPT !.outcome = "not called"]]

ForwardPass ==
    \E bs \in 1 .. MaxBs, sl \in 1 .. MaxSl :
        \E lens \in [Range(bs) -> 0 .. sl] : pre_forward_hook(bs, sl, lens)

\* Several retrieval layers in the save stage.
InitLayers ==
    /\ Created
    /\ layers \in NewLayers

NextLayers == ForwardPass

SpecLayers == InitLayers /\ [][NextLayers]_vars

GetKnnsByIds(idb, max_length, skip_first_token, return_all) ==
    \E r \in {GetKnnsByIdsResult(idb, max_length, skip_first_token, return_all)} :
    /\ last' = [Call("get_knns_by_ids") EXCEPT !.ids = idb, !.bs = Len(idb),
                    !.max_length = max_length, !.skip_first_token = skip_first_token,
                    !.return_all = return_all, !.outcome = r.outcome, !.ret = r.ret]
    /\ UNCHANGED <<size, move_dstore_to_mem, mode, moved, cur_idx, keys, values, tokens,
                   ids, side_ok, indices, index_file, start_offsets, end_offsets, lengths>>
    /\ UNCHANGED attnVars

\* batches of one or two ids, with and without a span in the store
IdBatches == {<<i>> : i \in 0 .. MaxId} \cup {<<i, j>> : i, j \in 0 .. MaxId}

GetKnnsByIdsStep ==
    \E idb \in IdBatches, max_length \in 0 .. MaxLen :
        \E skip_first_token \in BOOLEAN, return_all \in BOOLEAN :
            GetKnnsByIds(idb, max_length, skip_first_token, return_all)

\* The ids files a collection run leaves: zero-based, gapless, non-decreasing.
CollectedIds(sz) ==
    {f \in [Range(sz) -> 0 .. MaxId] :
        f[0] = 0 /\ \A i \in 1 .. (sz - 1) : f[i] - f[i - 1] \in {0, 1}}

\* A reading process on the files of a finished collection run, after
\* load_index(build_offset=True) with move_dstore_to_mem set: slot s holds
\* the entry of tag TagRun(1, size)[s + 1], the offsets are built.
InitLookup ==
    /\ size \in 1 .. MaxIds
    /\ move_dstore_to_mem = TRUE
    /\ mode = "r"
    /\ moved = TRUE
    /\ cur_idx = 0
    /\ keys = KeysOf(TagRun(1, size), NHeads, Dim).data
    /\ values = ValuesOf(TagRun(1, size), NHeads, Dim).data
    /\ tokens = TokensOf(TagRun(1, size)).data
    /\ ids \in CollectedIds(size)
    /\ side_ok = TRUE
    /\ index_file = [set |-> TRUE, list |-> [h \in 1 .. NHeads |-> EmptyIndex]]
    /\ indices = index_file
    /\ \E scan \in {ScanIds(ids, size, 0, -1, << >>, << >>)} :
          /\ start_offsets = scan.starts
          /\ end_offsets = Append(scan.ends, FinalEnd(size))
          /\ lengths = [set |-> TRUE, data |-> Lengths(start_offsets, end_offsets)]
    /\ AttnIdle
    /\ layers = << >>
    /\ last = [Call("load_index") EXCEPT !.cur_idx = 0, !.moved = FALSE, !.id_offset = 0,
                    !.build_offset = TRUE, !.log = <<"info", "info">>]

NextLookup == GetKnnsByIdsStep

SpecLookup == InitLookup /\ [][NextLookup]_vars

dstoreVars == <<size, move_dstore_to_mem, mode, moved, cur_idx, keys, values, tokens, ids,
                side_ok, indices, index_file, start_offsets, end_offsets, lengths>>

AddSingleStepBatched(prediction, topk, t) ==
    /\ Len(tracker.predictions) < MaxSteps
    /\ tracker.predictions # << >> => Len(prediction) = Len(tracker.predictions[1])
    /\ tracker' = AddStep(tracker, prediction, Retrieved(Len(prediction), topk, TokOf(t)),
                          Retrieved(Len(prediction), topk, IdOf(t)))
    /\ last' = [Call("add_single_step_batched") EXCEPT !.bs = Len(prediction),
                    !.topk = topk, !.predictions = tracker.predictions]
    /\ UNCHANGED dstoreVars
    /\ UNCHANGED <<cfg, id_offset, by_ids_cache, env, layers>>

\* The predictions of one step for bs rows: the first e rows are at the end
\* of their sequence, the others predict v.  What was retrieved is the
\* token and id of tag t, for topk (0 on a step without retrieval) ranks.
StepPredictions(bs) ==
    {[b \in 1 .. bs |-> IF b <= e THEN EosTokenId ELSE v] : e \in 0 .. bs, v \in {5, 7}}

AddSingleStepBatchedStep ==
    \E bs \in 1 .. MaxBs, topk \in 0 .. 1 :
        \E prediction \in StepPredictions(bs) : AddSingleStepBatched(prediction, topk, 1)

Write ==
    \E r \in {WriteResult(tracker)} :
    /\ tracker' = r.tracker
    /\ last' = [Call("write") EXCEPT !.predictions = tracker.predictions,
                    !.out = r.out, !.outcome = r.outcome]
    /\ UNCHANGED dstoreVars
    /\ UNCHANGED <<cfg, id_offset, by_ids_cache, env, layers>>

\* A tracker on its own: steps are recorded and flushed in any order.
NextTracker ==
    \/ AddSingleStepBatchedStep
    \/ Write

SpecTracker == Init /\ [][NextTracker]_vars

MaxWidth == 2

\* Steps whose retrieved tensors differ in their last dimension: a step
\* with retrieval switched off (width 0), lookups by ids of batches with
\* spans of different lengths.
AddStepOfWidthStep ==
    \E bs \in 1 .. MaxBs, topk \in 0 .. MaxWidth :
        \E prediction \in StepPredictions(bs) : AddSingleStepBatched(prediction, topk, 2)

\* A tracker whose steps have any widths up to MaxWidth.
NextTrackerWidths ==
    \/ AddStepOfWidthStep
    \/ Write

SpecTrackerWidths == Init /\ [][NextTrackerWidths]_vars

MaxBatches == 2
MaxKeyLen == 2

\* The orders in which the index may return equal scores: a choice only
\* where the call searches the index for topk > 0 neighbours.
TieOrders(sl) == IF cfg.by_ids \/ sl > 1 THEN {FALSE} ELSE BOOLEAN

\* One call of retrieve by the attention layer; e is the caller afterwards.
Retrieve(bs, sl, key_length, e) ==
    /\ cfg.stage = "retrieve"
    /\ last.outcome = "ok"
    /\ \E low_first \in TieOrders(sl) :
       \E r \in {RetrieveResult(bs, sl, key_length, e.batch, low_first)} :
          /\ by_ids_cache' = r.by_ids_cache
          /\ tracker' = r.tracker
          /\ id_offset' = r.id_offset
          /\ last' = [Call("retrieve") EXCEPT !.bs = bs, !.sl = sl,
                          !.key_length = key_length, !.first = (e.batch # env.batch),
                          !.path = r.path, !.topk = r.topk, !.ids = r.ids,
                          !.width = r.width, !.cache_batch = by_ids_cache.batch,
                          !.predictions = tracker.predictions, !.out = r.out,
                          !.low_first = low_first, !.return_all = cfg.track,
                          !.outcome = r.outcome, !.ret = r.ret]
    /\ env' = e
    /\ UNCHANGED layers
    /\ UNCHANGED dstoreVars
    /\ UNCHANGED cfg

\* The sizes the next batch of the run may have: the batches of a run have
\* one size, the last ones may be smaller.
BatchSizes == IF env.batch = 0 THEN 1 .. MaxBs ELSE 1 .. env.bs

\* A generation call on a new batch starts with the decode step of key
\* length 1.
RetrieveFirstDecodeStep ==
    /\ env.batch < MaxBatches
    /\ \E bs \in BatchSizes :
          Retrieve(bs, 1, 1, [batch |-> env.batch + 1, key_length |-> 1, bs |-> bs,
                              before |-> env.before + env.bs])

\* The next decode step of the generation call under way.
RetrieveNextDecodeStep ==
    /\ env.key_length >= 1
    /\ env.key_length < MaxKeyLen
    /\ Retrieve(env.bs, 1, env.key_length + 1, [env EXCEPT !.key_length = @ + 1])

\* An evaluation pass over a new batch: one call on all its positions.
RetrieveEvaluation ==
    /\ env.batch < MaxBatches
    /\ \E bs \in BatchSizes, sl \in 2 .. MaxSl :
          Retrieve(bs, sl, sl, [batch |-> env.batch + 1, key_length |-> 0, bs |-> bs,
                                before |-> env.before + env.bs])

Cfgs ==
    {c \in [stage : {"retrieve"}, topk : {1, MaxBatch}, by_ids : BOOLEAN,
            skip_retrieval_steps : 0 .. 1, skip_first_token : BOOLEAN,
            track : BOOLEAN, add_after_first : {FALSE}, host : {NoHost}] :
        c.skip_first_token => c.by_ids}

\* The retrieve stage: a reading process on the files of a finished
\* collection run that filled the store with MaxId examples, the first of
\* two entries, after build_index and load_index(build_offset=True) with
\* move_dstore_to_mem set.
RetrieveStage(cfgs) ==
    /\ size = MaxCap
    /\ move_dstore_to_mem = TRUE
    /\ mode = "r"
    /\ moved = TRUE
    /\ cur_idx = 0
    /\ keys = KeysOf(TagRun(1, size), NHeads, Dim).data
    /\ values = ValuesOf(TagRun(1, size), NHeads, Dim).data
    /\ tokens = TokensOf(TagRun(1, size)).data
    /\ ids \in {f \in CollectedIds(size) : f[1] = 0 /\ f[size - 1] = MaxId - 1}
    /\ side_ok = TRUE
    /\ index_file = [set |-> TRUE,
                     list |-> [h \in 1 .. NHeads |->
                                  AddChunks(EmptyIndex, keys[h - 1], size, 0, size)]]
    /\ indices = index_file
    /\ \E scan \in {ScanIds(ids, size, 0, -1, << >>, << >>)} :
          /\ start_offsets = scan.starts
          /\ end_offsets = Append(scan.ends, FinalEnd(size))
          /\ lengths = [set |-> TRUE, data |-> Lengths(start_offsets, end_offsets)]
    /\ cfg \in cfgs
    /\ id_offset = 0
    /\ by_ids_cache = NoCache
    /\ tracker = NoTracker
    /\ env = NoEnv
    /\ layers = << >>
    /\ last = [Call("load_index") EXCEPT !.cur_idx = 0, !.moved = FALSE, !.id_offset = 0,
                    !.build_offset = TRUE, !.log = <<"info", "info">>]

InitRetrieve == RetrieveStage(Cfgs)

NextRetrieve ==
    \/ RetrieveFirstDecodeStep
    \/ RetrieveNextDecodeStep
    \/ RetrieveEvaluation

SpecRetrieve == InitRetrieve /\ [][NextRetrieve]_vars

PresentKeyValueState_Joint(use_cache, key_states, value_states, rows) ==
    IF use_cache
    THEN [set |-> TRUE, key_states |-> rows[1].key_states,
          value_states |-> rows[1].value_states]
    ELSE NoPresent

\* present_key_value_state = (key_states, value_states) if use_cache: the
\* tensors of the caller, which attn does not change (it rebinds its own
\* parameters to the concatenation)
PresentKeyValueState(use_cache, key_states, value_states, rows) ==
    IF use_cache
    THEN [set |-> TRUE, key_states |-> key_states, value_states |-> value_states]
    ELSE NoPresent

\* The position bias of the call: the first layer gets none and computes it
\* from its own relative attention bias; a later layer is handed what the
\* first layer returned.
HostPositionBias(sl, key_length, mask) ==
    LET past_key_value == key_length > sl
        handed_in == IF cfg.host.first_layer THEN [set |-> FALSE, bias |-> << >>]
                     ELSE [set |-> TRUE,
                           bias |-> init_position_bias(TRUE, past_key_value, mask,
                                                       key_length, key_length, sl)]
    IN  IF ~handed_in.set
        THEN init_position_bias(cfg.host.first_layer, past_key_value, mask,
                                key_length, key_length, sl)
        ELSE handed_in.bias

\* What follows retrieve in the retrieve stage: the position bias, attn, and
\* the outputs; r is what retrieve returned.
ForwardOutputs(bs, sl, key_length, key_states, value_states, r) ==
    IF r.outcome # "ok" THEN [outcome |-> r.outcome, fwd |-> NoForward]
    ELSE
    LET mask == HostMask(cfg.host.mask, sl, key_length)
        a == attn(bs, sl, key_states, value_states, key_length, key_length, r.ret, mask,
                  cfg.host.layer_head_mask, cfg.add_after_first)
    IN  IF a.outcome # "ok" THEN [outcome |-> a.outcome, fwd |-> NoForward]
        ELSE [outcome |-> "ok",
              fwd |-> [position_bias |-> HostPositionBias(sl, key_length, mask),
                       rows |-> a.rows,
                       present |-> PresentKeyValueState(cfg.host.use_cache,
                                       key_states, value_states, a.rows)]]

\* One call of the patched attention layer in the retrieve stage on sl new
\* positions after the past key/value state; e is the caller afterwards.
\* real_seq_length = seq_length + past_key_value[0].shape[2], and key_length
\* is real_seq_length in self-attention.
t5attetnion_forward(bs, sl, past, e) ==
    /\ cfg.stage = "retrieve"
    /\ last.outcome = "ok"
    /\ \E key_length \in {sl + Len(past.key_states)} :
       \E low_first \in TieOrders(sl) :
       \E r \in {RetrieveResult(bs, sl, key_length, e.batch, low_first)} :
       \E f \in {ForwardOutputs(bs, sl, key_length,
                                 Project(past.key_states,
                                    [j \in 1 .. sl |-> LocalKey(key_length - sl + j - 1)]),
                                 Project(past.value_states,
                                    [j \in 1 .. sl |-> LocalValue(key_length - sl + j - 1)]),
                                 r)} :
          /\ by_ids_cache' = r.by_ids_cache
          /\ tracker' = r.tracker
          /\ id_offset' = r.id_offset
          /\ last' = [Call("forward") EXCEPT !.bs = bs, !.sl = sl,
                          !.key_length = key_length, !.first = (e.batch # env.batch),
                          !.path = r.path, !.topk = r.topk, !.ids = r.ids,
                          !.width = r.width, !.cache_batch = by_ids_cache.batch,
                          !.predictions = tracker.predictions, !.out = r.out,
                          !.low_first = low_first, !.return_all = cfg.track,
                          !.outcome = f.outcome, !.ret = r.ret, !.fwd = f.fwd]
    /\ env' = e
    /\ UNCHANGED layers
    /\ UNCHANGED dstoreVars
    /\ UNCHANGED cfg

\* The first decode step of the generation call: no past key/value state.
ForwardFirstDecodeStep ==
    /\ env.batch = 0
    /\ \E bs \in BatchSizes :
          t5attetnion_forward(bs, 1, NoPresent,
                              [batch |-> env.batch + 1, key_length |-> 1,
                               bs |-> bs, before |-> env.before + env.bs])

\* The next decode step of the generation call, with use_cache: the host
\* hands back the key/value state the layer returned for the step before.
ForwardNextDecodeStep ==
    /\ env.key_length >= 1
    /\ env.key_length < MaxKeyLen
    /\ last.fwd.present.set
    /\ t5attetnion_forward(env.bs, 1, last.fwd.present,
                           [env EXCEPT !.key_length = @ + 1])

\* The evaluation pass: one call on all positions of the batch.
ForwardEvaluation ==
    /\ env.batch = 0
    /\ \E bs \in BatchSizes, sl \in 2 .. MaxSl :
          t5attetnion_forward(bs, sl, NoPresent,
                              [batch |-> env.batch + 1, key_length |-> 0,
                               bs |-> bs, before |-> env.before + env.bs])

\* The configurations of a patched layer and of its host: retrieval at
\* every decode step, or at none of the steps the run has.
Hosts ==
    [first_layer : BOOLEAN, mask : {"none", "causal", "padded"},
     layer_head_mask : BOOLEAN, use_cache : BOOLEAN]

AttnCfgs ==
    [stage : {"retrieve"}, topk : {1, MaxBatch}, by_ids : BOOLEAN,
     skip_retrieval_steps : {0, MaxKeyLen}, skip_first_token : {FALSE}, track : BOOLEAN,
     add_after_first : BOOLEAN, host : Hosts]

InitAttn == RetrieveStage(AttnCfgs)

\* The retrieve stage as the host runs it on one batch: a generation call
\* or an evaluation pass through the patched layer.
NextAttn ==
    \/ ForwardFirstDecodeStep
    \/ ForwardNextDecodeStep
    \/ ForwardEvaluation

SpecAttn == InitAttn /\ [][NextAttn]_vars

Next ==
    \/ SaveKeyValueStep
    \/ Reopen

Spec == Init /\ [][Next]_vars

----------------------------------------------------------------------------
(* Claims about save_key_value *)

IsSave == last.op = "save_key_value"

\* The number of entries handed in (keys.size(1)) and the room left before the call.
NNew == Len(last.tags)
Room == size - last.cur_idx

\* The call passed both asserts and ran into the truncation branch.
PassesAsserts == last.fault \in {"none", "values_dim", "values_one_head"}
Truncated == IsSave /\ PassesAsserts /\ last.cur_idx + NNew > size

\* A writable store that holds the side-channels, called with well-formed arguments.
WellFormedSave ==
    IsSave /\ last.fault = "none" /\ mode = "w+" /\ side_ok /\ ~moved

HasWarning == \E j \in 1 .. Len(last.log) : last.log[j] = "warning"

\* C1: 0 <= cur_idx <= capacity in every reachable state, and no
\* save_key_value call leaves cur_idx smaller than it found it.
C1_CurIdxBounded ==
    /\ 0 <= cur_idx /\ cur_idx <= size
    /\ IsSave => cur_idx >= last.cur_idx

\* a truncated append that filled the store
C1_Witness ==
    IsSave /\ Truncated /\ last.outcome = "ok"
    /\ last.cur_idx > 0 /\ cur_idx > last.cur_idx /\ cur_idx = size

\* C2: a well-formed append to a writable store ends without an error, writes
\* exactly w = min(n_new, capacity - cur_idx) entries, the first w of the batch,
\* to the slots [cur_idx, cur_idx + w) of keys, values, tokens and ids, and
\* advances cur_idx by w.
C2_AppendWritesPrefix ==
    WellFormedSave =>
        LET w == Min(NNew, Room) IN
        /\ last.outcome = "ok"
        /\ cur_idx = last.cur_idx + w
        /\ \A j \in Range(w) :
            /\ \A h \in Range(NHeads), d \in Range(Dim) :
                /\ keys[h][last.cur_idx + j][d] = KeyComp(last.tags[j + 1], h, d)
                /\ values[h][last.cur_idx + j][d] = ValComp(last.tags[j + 1], h, d)
            /\ tokens[last.cur_idx + j] = TokOf(last.tags[j + 1])
            /\ ids[last.cur_idx + j] = IdOf(last.tags[j + 1])

\* a batch of which some but not all entries fitted
C2_Witness ==
    WellFormedSave /\ last.outcome = "ok" /\ 0 < Room /\ Room < NNew /\ cur_idx = size

C4_ReadOnlyAppendFails ==
    [][(last'.op = "save_key_value" /\ mode' = "r") =>
            /\ last'.outcome # "ok"
            /\ UNCHANGED <<cur_idx, keys, values, tokens, ids>>]_vars

\* an empty, well-formed batch refused by a read-only store that holds entries
C4_Witness ==
    /\ IsSave /\ mode = "r" /\ last.fault = "none" /\ NNew = 0
    /\ last.outcome = "ValueError"
    /\ \E s \in Range(size) : tokens[s] # 0

\* C5 as claimed, on a store that holds its side-channels: a save_key_value
\* call whose arguments are inconsistent (differing entry counts, a head count
\* or dimension that is not the store's) leaves cur_idx and the four arrays
\* as they were.  (On a store whose tokens and ids are
\* None the claim fails as well: keys and values are written before the
\* tokens assignment raises TypeError.)
C5_InconsistentAppendWritesNothing ==
    [][(last'.op = "save_key_value" /\ last'.fault # "none" /\ side_ok') =>
            UNCHANGED <<cur_idx, keys, values, tokens, ids>>]_vars

\* C6 as claimed, on a store that holds its side-channels: a save_key_value
\* call that starts at cur_idx = c and ends at cur_idx = c' changes no slot
\* below c and no slot at or above c'.
C6_AppendOnly ==
    [][(last'.op = "save_key_value" /\ side_ok') =>
            \A s \in Range(size) :
                (s < cur_idx \/ s >= cur_idx') =>
                    /\ \A h \in Range(NHeads) :
                            keys'[h][s] = keys[h][s] /\ values'[h][s] = values[h][s]
                    /\ tokens'[s] = tokens[s]
                    /\ ids'[s] = ids[s]]_vars

IsQuery == last.op = "get_knns"
IsLoad == last.op = "load_index"

\* A result with a zero-width top-k dimension for nh heads and nt queries.
EmptyRows(nh, nt) == [h \in Range(nh) |-> [b \in Range(nt) |-> << >>]]

\* C7: get_knns with topk <= 0 returns key and value results of shape
\* (n_heads, batch, 0, dim) taken from the query batch, and token and id
\* results of shape (n_heads, batch, 0) when they are requested (None when
\* not); it searches no index and so succeeds without any index.
C7_EmptyTopkResult ==
    (IsQuery /\ last.topk <= 0) =>
        /\ last.outcome = "ok"
        /\ last.ret.searched = 0
        /\ last.ret.ks_shape = <<last.qnh, last.qnt, 0, last.qdim>>
        /\ last.ret.ks = EmptyRows(last.qnh, last.qnt)
        /\ last.ret.vs = EmptyRows(last.qnh, last.qnt)
        /\ IF last.return_all
           THEN /\ last.ret.ts_shape = <<last.qnh, last.qnt, 0>>
                /\ last.ret.ts = EmptyRows(last.qnh, last.qnt)
                /\ last.ret.ids = EmptyRows(last.qnh, last.qnt)
           ELSE /\ last.ret.ts_shape = << >>
                /\ last.ret.ts = << >>
                /\ last.ret.ids = << >>

C7_Witness ==
    /\ IsQuery /\ last.topk = 0 /\ last.return_all
    /\ ~indices.set
    /\ last.qkind = "tags" /\ last.qnh # NHeads /\ last.qdim # Dim /\ last.qnt > 0
    /\ last.outcome = "ok"
    /\ last.ret.ts_shape = <<last.qnh, last.qnt, 0>>

\* The index of every head holds exactly the keys of the slots [0, cur_idx).
FreshIndex ==
    /\ indices.set
    /\ Len(indices.list) = NHeads
    /\ \A h \in Range(NHeads) :
          indices.list[h + 1] = [ntotal |-> cur_idx,
                                 xb |-> [i \in Range(cur_idx) |-> keys[h][i]]]

\* The query of the round trip: every stored key, topk = the number stored.
RoundTripQuery ==
    /\ IsQuery /\ last.qkind = "stored"
    /\ cur_idx >= 1 /\ last.topk = cur_idx
    /\ FreshIndex

\* For every head and query the result is the cur_idx stored entries, each
\* once, by non-increasing inner product with the query.
RoundTripResult ==
    /\ last.outcome = "ok"
    /\ \A h \in Range(NHeads), b \in Range(cur_idx) :
          LET lab == last.ret.labels[h][b]
              ip(p) == Dot(keys[h][lab[p]], keys[h][b], Dim)
          IN  /\ Len(lab) = cur_idx
              /\ {lab[p] : p \in 1 .. cur_idx} = Range(cur_idx)
              /\ \A p \in 1 .. (cur_idx - 1) : ip(p) >= ip(p + 1)
              /\ \A p \in 1 .. cur_idx :
                    /\ last.ret.ks[h][b][p] = keys[h][lab[p]]
                    /\ last.ret.vs[h][b][p] = values[h][lab[p]]
                    /\ last.return_all =>
                          /\ last.ret.ts[h][b][p] = tokens[lab[p]]
                          /\ last.ret.ids[h][b][p] = ids[lab[p]]

\* C8: after appending m entries and building the index, querying each head
\* with the appended keys and topk = m returns, for every head and query,
\* exactly the m appended entries by non-increasing inner product, and no
\* slot at or beyond cur_idx.
C8_RoundTrip == RoundTripQuery => RoundTripResult

\* C8, what the model shows instead: the round trip holds once load_index
\* has moved the store to memory, and the query raises before that.
C8_RoundTripOnceMoved ==
    RoundTripQuery => IF moved THEN RoundTripResult ELSE last.outcome = "TypeError"

\* The ids of the store are zero-based, gapless and non-decreasing.
WellFormedIds ==
    /\ ids[0] = 0
    /\ \A i \in 1 .. (size - 1) : ids[i] - ids[i - 1] \in {0, 1}

FirstPos(id) == CHOOSE p \in Range(size) : ids[p] = id /\ \A r \in Range(p) : ids[r] # id
LastPos(id) ==
    CHOOSE p \in Range(size) : ids[p] = id /\ \A r \in Range(size) : r > p => ids[r] # id

RECURSIVE SumTo(_, _)
SumTo(sq, n) == IF n = 0 THEN 0 ELSE sq[n] + SumTo(sq, n - 1)

\* load_index(build_offset=True) on a store with its side channels that was
\* not moved to memory by an earlier call.
BuildsOffsets == IsLoad /\ last.build_offset /\ ~last.moved /\ side_ok

\* C9: over zero-based, gapless, non-decreasing ids the offsets built give
\* each id i the span from its first occurrence to one past its last, with
\* length = end - start; so start[0] = 0, end[i] = start[i+1], every length
\* is at least 1 and the lengths sum to the number of ids scanned.
C9_OffsetsAreSpans ==
    (BuildsOffsets /\ WellFormedIds) =>
        LET n == ids[size - 1] + 1
        IN  /\ move_dstore_to_mem => last.outcome = "ok"
            /\ Len(start_offsets) = n /\ Len(end_offsets) = n
            /\ lengths.set /\ Len(lengths.data) = n
            /\ \A i \in Range(n) :
                  /\ start_offsets[i + 1] = FirstPos(i)
                  /\ end_offsets[i + 1] = LastPos(i) + 1
                  /\ lengths.data[i + 1] = end_offsets[i + 1] - start_offsets[i + 1]
                  /\ lengths.data[i + 1] >= 1
            /\ start_offsets[1] = 0
            /\ \A i \in 1 .. (n - 1) : end_offsets[i] = start_offsets[i + 1]
            /\ SumTo(lengths.data, n) = size

C9_Witness ==
    /\ BuildsOffsets /\ last.outcome = "ok"
    /\ size = 6
    /\ ids = [p \in Range(6) |-> IF p < 2 THEN 0 ELSE IF p < 5 THEN 1 ELSE 2]
    /\ start_offsets = <<0, 2, 5>>
    /\ end_offsets = <<2, 5, 6>>
    /\ lengths.data = <<2, 3, 1>>

\* C10: for ids that are not zero-based, gapless and non-decreasing the
\* build of the offsets fails with an error and produces no offsets.
C10_MalformedIdsRejected ==
    (BuildsOffsets /\ ~WellFormedIds) =>
        /\ last.outcome \in {"ValueError", "AssertionError"}
        /\ ~lengths.set

\* C11: build_index run again on the same store contents and cur_idx leaves
\* for every head the persisted index of the first run, entry by entry and
\* in the same order; the rerun rewrites the index and adds no entry twice.
C11_BuildIndexIdempotent ==
    [][(last'.op = "build_index" /\ last'.outcome = "ok"
            /\ last.op = "build_index" /\ last.outcome = "ok")
        => /\ index_file' = index_file
           /\ indices' = index_file'
           /\ \A h \in 1 .. NHeads : index_file'.list[h].ntotal = cur_idx]_vars

C11_Witness ==
    /\ last.op = "build_index" /\ last.rerun /\ last.outcome = "ok"
    /\ cur_idx = MaxBatch
    /\ \A h \in 1 .. NHeads : index_file.list[h].ntotal = cur_idx

\* C12: every save call on a batch of bs examples advances id_offset by
\* exactly bs, whatever number of positions the label mask keeps and whatever
\* number of entries the store accepts.
C12_SaveAdvancesByBatchSize ==
    last.op = "save" => id_offset = last.id_offset + last.bs

\* a save whose surviving positions do not all fit: some kept, some dropped
C12_Witness ==
    /\ last.op = "save" /\ last.outcome = "ok"
    /\ last.bs = MaxBs /\ last.nt > last.bs
    /\ 0 < size - last.cur_idx /\ size - last.cur_idx < last.nt
    /\ cur_idx = size
    /\ id_offset = last.id_offset + last.bs

\* C17: get_knns_by_ids with bound max_length returns for every batch of ids
\* a result whose length dimension is exactly max_length, longer rows cut to
\* their first max_length entries and shorter rows zero-padded up to it.
C17_LookupWidthIsMaxLength ==
    (last.op = "get_knns_by_ids" /\ last.outcome = "ok" /\ ~last.skip_first_token) =>
        /\ last.ret.ks_shape = <<NHeads, last.bs, last.max_length, Dim>>
        /\ \A h \in Range(NHeads), b \in Range(last.bs) :
              /\ Len(last.ret.ks[h][b]) = last.max_length
              /\ Len(last.ret.vs[h][b]) = last.max_length

\* The number of steps of row i before its first end-of-sequence prediction.
StepsBeforeEos(preds, i) ==
    Cardinality({j \in 1 .. Len(preds) : \A m \in 1 .. j : preds[m][i] # EosTokenId})

RECURSIVE BlockStart(_, _)
BlockStart(preds, i) ==
    IF i = 1 THEN 0 ELSE BlockStart(preds, i - 1) + StepsBeforeEos(preds, i - 1) + 1

\* C18: write emits, row by row, one line for each buffered step before the
\* first step whose prediction is the end-of-sequence token, then one empty
\* line; afterwards the buffer is empty.
C18_WriteStopsBeforeEos ==
    (last.op = "write" /\ last.outcome = "ok") =>
        LET preds == last.predictions
            bs == Len(preds[1])
        IN  /\ tracker = NoTracker
            /\ Len(last.out) = BlockStart(preds, bs + 1)
            /\ \A i \in 1 .. bs :
                  /\ \A j \in 1 .. StepsBeforeEos(preds, i) :
                        /\ last.out[BlockStart(preds, i) + j] # << >>
                        /\ last.out[BlockStart(preds, i) + j][1] = preds[j][i]
                        /\ preds[j][i] # EosTokenId
                  /\ last.out[BlockStart(preds, i + 1)] = << >>

\* predictions 5, 7, <eos> for row 1, while row 2 goes on
C18_Witness ==
    /\ last.op = "write" /\ last.outcome = "ok"
    /\ Len(last.predictions) = 3 /\ Len(last.predictions[1]) = 2
    /\ last.predictions[1][1] = 5 /\ last.predictions[2][1] = 7
    /\ last.predictions[3][1] = EosTokenId
    /\ last.predictions[3][2] # EosTokenId
    /\ Len(last.out) = 7
    /\ last.out[1][1] = 5 /\ last.out[2][1] = 7 /\ last.out[3] = << >>
    /\ tracker = NoTracker

\* C19: a write on an empty buffer emits nothing and does not end in an error.
C19_EmptyWriteIsSilent ==
    (last.op = "write" /\ last.predictions = << >>) =>
        /\ last.outcome = "ok"
        /\ last.out = << >>

IsRetrieve == last.op = "retrieve"

\* The call was a decode step of the warm-up: retrieval is skipped.
WarmUpStep ==
    last.sl = 1 /\ cfg.skip_retrieval_steps > 0
        /\ last.key_length <= cfg.skip_retrieval_steps

\* C13: the result of a retrieve call has width 0 when the call is
\* multi-token and when it is a decode step whose key_length is at most
\* skip_retrieval_steps (> 0), by index search as well as by ids; on the
\* first decode step past the warm-up the configured topk is passed to the
\* lookup or the search.
C13_NoRetrievalInWarmUpAndEvaluation ==
    IsRetrieve =>
        /\ (last.outcome = "ok" /\ (last.sl > 1 \/ WarmUpStep)) =>
              /\ last.width = 0
              /\ \A h \in Range(NHeads), b \in Range(last.bs * last.sl) :
                    last.ret.ks[h][b] = << >> /\ last.ret.vs[h][b] = << >>
        /\ (last.sl = 1 /\ cfg.skip_retrieval_steps > 0
                /\ last.key_length = cfg.skip_retrieval_steps + 1) =>
              /\ last.path \in {"lookup", "knns"}
              /\ last.topk = cfg.topk

\* the last step of the warm-up of a second batch, looked up by ids
C13_Witness ==
    /\ IsRetrieve /\ last.outcome = "ok"
    /\ cfg.by_ids /\ cfg.topk > 0 /\ WarmUpStep
    /\ last.key_length = cfg.skip_retrieval_steps
    /\ env.batch = 2
    /\ last.path = "lookup" /\ last.topk = 0 /\ last.width = 0
    /\ lengths.data[last.ids[1] + 1] > 0

\* C14: with lookup by ids, the first single-token call of each batch does a
\* fresh lookup, and a cached result is used only for calls of the batch it
\* was looked up for.
C14_CacheBelongsToBatch ==
    (IsRetrieve /\ cfg.by_ids /\ last.sl = 1) =>
        /\ last.first => last.path = "lookup"
        /\ last.path = "cache" => last.cache_batch = env.batch

\* C15: in the retrieve stage id_offset never decreases and the default ids
\* of a batch are id_offset + 0..bs-1 with id_offset the sum of the sizes of
\* the batches before it, also for batches of single-token calls only.
C15_IdOffsetAdvancesPerBatch ==
    IsRetrieve =>
        /\ id_offset >= last.id_offset
        /\ last.ids = DefaultIds(last.bs, env.before)

\* C16: after a multi-token retrieve call on bs examples id_offset has grown
\* by bs and the by-id cache is empty; a single-token call leaves id_offset
\* as it was.
C16_EvaluationCallAdvances ==
    IsRetrieve =>
        IF last.sl > 1
        THEN id_offset = last.id_offset + last.bs /\ ~by_ids_cache.set
        ELSE id_offset = last.id_offset

\* C20: with a tracker, when a generation call starts the buffer holds no
\* record of an earlier call.
C20_BufferFlushedPerCall ==
    (IsRetrieve /\ cfg.track /\ last.sl = 1 /\ last.first) => last.predictions = << >>

\* C23: a build_index that returns has inserted, for every head, exactly the
\* keys of the slots [0, cur_idx) in store order and nothing from the unused
\* slots, for every batch_size >= 1, and has written one index per head.
C23_BuildIndexInsertsValidKeys ==
    (last.op = "build_index" /\ last.outcome = "ok") =>
        /\ last.batch_size >= 1
        /\ FreshIndex
        /\ index_file = indices

\* two chunks, the second one not full
C23_Witness ==
    /\ last.op = "build_index" /\ last.outcome = "ok"
    /\ last.batch_size = 2 /\ cur_idx = 3
    /\ \A h \in 1 .. NHeads : indices.list[h].ntotal = 3
    /\ indices.list[1].xb[2] = keys[0][2] /\ keys[0][2] # ZeroVec

\* The entries a collection run appended: every appended token is non-zero,
\* the slots never written hold the zeros the files were created with.
ValidEntries == Cardinality({p \in Range(size) : tokens[p] # 0})

\* the ids of the slots [0, n) are zero-based, gapless and non-decreasing
WellFormedPrefix(n) ==
    /\ n > 0 => ids[0] = 0
    /\ \A i \in 1 .. (n - 1) : ids[i] - ids[i - 1] \in {0, 1}

\* C24: on the reopened files of a run that appended n < size entries with
\* zero-based, gapless, non-decreasing ids and built the index,
\* load_index(build_offset=True) succeeds and the spans partition [0, n): one span per id, the first from
\* 0, the last up to n; no unused slot belongs to a span.
C24_OffsetsOverValidEntriesOnly ==
    (BuildsOffsets /\ move_dstore_to_mem /\ mode = "r" /\ index_file.set
        /\ ValidEntries >= 1 /\ ValidEntries < size
        /\ WellFormedPrefix(ValidEntries)) =>
        /\ last.outcome = "ok"
        /\ Len(start_offsets) = ids[ValidEntries - 1] + 1
        /\ Len(end_offsets) = Len(start_offsets)
        /\ start_offsets[1] = 0
        /\ end_offsets[Len(end_offsets)] = ValidEntries

\* The example of the k-th surviving position of a batch whose example b
\* keeps lens[b] positions: the first example up to which k positions survive.
SurvivorExample(lens, k) ==
    CHOOSE b \in 1 .. Len(lens) :
        /\ SumTo(lens, b) >= k
        /\ \A c \in 1 .. (b - 1) : SumTo(lens, c) < k

\* The ids of the slots [0, cur) are zero-based and gapless, and as long as
\* the store has room the last of them is the id before off.
GaplessUpTo(a, cur, off) ==
    /\ cur > 0 => a[0] = 0
    /\ \A i \in 1 .. (cur - 1) : a[i] - a[i - 1] \in {0, 1}
    /\ cur < size => (IF cur = 0 THEN -1 ELSE a[cur - 1]) = off - 1

\* C30: every save call that returns appends, for the k-th surviving
\* position, the id_offset at the start of the call plus the batch position
\* of its example; the ids of the slots [0, cur_idx) stay non-decreasing;
\* and when every example of every batch so far kept a position they stay
\* zero-based and gapless, also when the append is cut by the capacity.
C30_SavedIdsFollowIdOffset ==
    [][(last'.op = "save" /\ last'.outcome = "ok") =>
          /\ \A j \in cur_idx .. (cur_idx' - 1) :
                ids'[j] = id_offset + SurvivorExample(last'.lens, j - cur_idx + 1) - 1
          /\ \A j \in 0 .. (cur_idx - 1) : ids'[j] = ids[j]
          /\ \A j \in 1 .. (cur_idx' - 1) : ids'[j] >= ids'[j - 1]
          /\ (GaplessUpTo(ids, cur_idx, id_offset)
                /\ \A b \in 1 .. last'.bs : last'.lens[b] >= 1)
              => GaplessUpTo(ids', cur_idx', id_offset')]_vars

\* a second save of two examples whose positions do not all fit
C30_Witness ==
    /\ last.op = "save" /\ last.outcome = "ok"
    /\ last.cur_idx > 0 /\ last.bs = 2 /\ last.lens = <<1, 2>>
    /\ last.cur_idx + last.nt > size /\ cur_idx = size
    /\ ids[size - 1] = last.id_offset + 1
    /\ GaplessUpTo(ids, cur_idx, id_offset)

\* the largest last dimension of the buffered steps
WidestStep(rts) == rts[MaxTopkIdx(rts)].topk

\* the place of rank k of head h in a line of width w: token, then id
TokenAt(h, k, w) == 1 + ((h - 1) * w + (k - 1)) * 2 + 1

\* C25: a write over steps of different widths pads each narrower step with
\* zeros up to the largest width and keeps the step's own retrieved tokens
\* and ids in its leading columns.
C25_PaddingKeepsNarrowSteps ==
    [][(last'.op = "write" /\ last'.outcome = "ok") =>
          LET preds == tracker.predictions
              w == WidestStep(tracker.retrieved_tokens)
          IN  \A i \in 1 .. Len(preds[1]) :
              \A j \in 1 .. StepsBeforeEos(preds, i) :
                 LET line == last'.out[BlockStart(preds, i) + j]
                     rt == tracker.retrieved_tokens[j]
                     ri == tracker.retrieved_ids[j]
                 IN  /\ Len(line) = 1 + NHeads * w * 2
                     /\ \A h \in 1 .. NHeads, k \in 1 .. w :
                           /\ line[TokenAt(h, k, w)] =
                                 IF k <= rt.topk THEN rt.data[i][h][k] ELSE 0
                           /\ line[TokenAt(h, k, w) + 1] =
                                 IF k <= ri.topk THEN ri.data[i][h][k] ELSE 0]_vars

\* C21: in the retrieve stage an attention call that carries a per-head mask
\* fails with an error, returns no attention result, and leaves id_offset,
\* the by-id cache and the tracker buffer as they were before the call.
C21_HeadMaskFailsWithoutEffect ==
    [][(last'.op = "forward" /\ cfg.host.layer_head_mask) =>
          /\ last'.outcome # "ok"
          /\ last'.fwd = NoForward
          /\ id_offset' = id_offset
          /\ by_ids_cache' = by_ids_cache
          /\ tracker' = tracker]_vars

\* the rows of a successful single-token decode step
DecodeStepRows ==
    IF last.op = "forward" /\ last.outcome = "ok" /\ last.sl = 1
    THEN {last.fwd.rows[i] : i \in 1 .. Len(last.fwd.rows)}
    ELSE {}

\* the local key/value state the call attended over
CallKeyStates == [j \in 1 .. last.key_length |-> LocalKey(j - 1)]
CallValueStates == [j \in 1 .. last.key_length |-> LocalValue(j - 1)]

\* C22: a single-token decode step with retrieved width 0 attends over the
\* key columns, the position bias plus mask and the value rows of the
\* host's own attention, with the same attention weights and output.
C22_NoRetrievalIsHostAttention ==
    (last.op = "forward" /\ last.outcome = "ok" /\ last.sl = 1 /\ last.width = 0) =>
        last.fwd.rows = original_attn(last.bs, 1, CallKeyStates, CallValueStates,
                                      last.fwd.position_bias)

\* the second decode step of a run that retrieves nothing, the first local
\* key padded out by the host
C22_Witness ==
    /\ last.op = "forward" /\ last.outcome = "ok" /\ last.sl = 1 /\ last.width = 0
    /\ last.key_length = 2 /\ last.bs = 2
    /\ cfg.host.mask = "padded" /\ ~cfg.host.first_layer
    /\ Len(last.fwd.rows) = 2 * NHeads
    /\ last.fwd.rows[1].bias[0].mask < 0
    /\ last.fwd.rows[1].bias[1] = [bucket |-> 0, mask |-> 0]

\* the mask value the host assigned to local key j of the decode step
HostMaskOf(j) ==
    IF cfg.host.mask = "none" THEN 0
    ELSE HostMask(cfg.host.mask, 1, last.key_length).rows[0][j]

\* C26: in every single-token decode step each column that holds a retrieved
\* key gets mask value 0 and each column that holds a local key gets the mask
\* value the host assigned to that local key.
C26_MaskColumnsLineUp ==
    \A row \in DecodeStepRows :
    \A c \in 1 .. Len(row.key_states) :
        IF \E j \in Range(last.key_length) : row.key_states[c] = LocalKey(j)
        THEN \A j \in Range(last.key_length) :
                row.key_states[c] = LocalKey(j) => row.bias[c - 1].mask = HostMaskOf(j)
        ELSE row.bias[c - 1].mask = 0

\* C27: in a single-token decode step the joint key and the joint value
\* sequence have width + key_length entries in the same order: the retrieved
\* entries then the local ones, or under add_after_first with key_length > 1
\* local entry 0, the retrieved entries, then local entries 1..key_length-1.
C27_JointOrder ==
    \A row \in DecodeStepRows :
        LET w == last.width
            kl == last.key_length
            ret_ks == last.ret.ks[row.h][row.b]
            ret_vs == last.ret.vs[row.h][row.b]
            after_first == cfg.add_after_first /\ kl > 1
            \* what column c holds: a retrieved rank or a local position
            rank(c) == IF after_first THEN c - 1 ELSE c
            retrieved(c) == rank(c) \in 1 .. w
            position(c) == IF after_first /\ c = 1 THEN 0 ELSE c - w - 1
        IN  /\ Len(ret_ks) = w /\ Len(ret_vs) = w
            /\ Len(row.key_states) = w + kl
            /\ Len(row.value_states) = w + kl
            /\ Len(row.attn_weights) = w + kl
            /\ \A c \in 1 .. (w + kl) :
                  IF retrieved(c)
                  THEN /\ row.key_states[c] = ret_ks[rank(c)]
                       /\ row.value_states[c] = ret_vs[rank(c)]
                  ELSE /\ position(c) \in Range(kl)
                       /\ row.key_states[c] = LocalKey(position(c))
                       /\ row.value_states[c] = LocalValue(position(c))

\* the second decode step under add_after_first with two retrieved entries
C27_Witness ==
    /\ last.op = "forward" /\ last.outcome = "ok" /\ last.sl = 1
    /\ cfg.add_after_first /\ last.key_length = 2 /\ last.width = 2
    /\ Len(last.fwd.rows) >= 1
    /\ last.fwd.rows[1].key_states[1] = LocalKey(0)
    /\ last.fwd.rows[1].key_states[4] = LocalKey(1)
    /\ last.fwd.rows[1].value_states[2] = last.ret.vs[0][0][1]

\* the keys and the values the store holds
KeysInStore == {keys[h][j] : h \in Range(NHeads), j \in Range(size)}
ValuesInStore == {values[h][j] : h \in Range(NHeads), j \in Range(size)}

\* C28: a retrieve-stage attention call hands back the local key/value
\* state unchanged: key_length entries, the local ones in their order, none
\* of them a retrieved key or value.
C28_PresentIsLocalState ==
    (last.op = "forward" /\ last.outcome = "ok") =>
        IF cfg.host.use_cache
        THEN /\ last.fwd.present.set
             /\ Len(last.fwd.present.key_states) = last.key_length
             /\ Len(last.fwd.present.value_states) = last.key_length
             /\ \A c \in 1 .. last.key_length :
                   /\ last.fwd.present.key_states[c] = LocalKey(c - 1)
                   /\ last.fwd.present.value_states[c] = LocalValue(c - 1)
                   /\ last.fwd.present.key_states[c] \notin KeysInStore
                   /\ last.fwd.present.value_states[c] \notin ValuesInStore
        ELSE last.fwd.present = NoPresent

\* a decode step that follows a step with retrieved entries, and retrieves
\* again
C28_Witness ==
    /\ last.op = "forward" /\ last.outcome = "ok" /\ last.sl = 1
    /\ cfg.host.use_cache /\ last.key_length = 2 /\ last.width >= 1
    /\ cfg.skip_retrieval_steps = 0
    /\ last.fwd.present.set
    /\ Len(last.fwd.rows) >= 1
    /\ Len(last.fwd.rows[1].key_states) > Len(last.fwd.present.key_states)

\* every retrieval layer returned from the pass
CompletePass ==
    /\ last.op = "save" /\ last.outcome = "ok"
    /\ \A l \in 1 .. Len(layers) : layers[l].outcome = "ok"

====
